---- MODULE Spec2Model ----
(***************************************************************************)
(* Timetable assignment engine of VDELIVEY/timetable_system.               *)
(*                                                                         *)
(* TimetableGenerator (src/unnamed/part_001): the grid, generate() with    *)
(* its assignment engine, the conflict resolver, the load balancer's       *)
(* transferLessons, the distribution optimizer's addMissingLessons and the *)
(* manual moveLesson.  ConstraintManager (src/unnamed/part_000): the        *)
(* validator, checkHardConstraints and calculateSoftConstraintScores.      *)
(*                                                                         *)
(* Specifications:                                                         *)
(*   Spec      one TimetableGenerator object: generate() runs from one     *)
(*             await to the next, cancelGeneration() may come in between.  *)
(*   SpecWeek  Spec for a one-class school with the seven-day week.        *)
(*   SpecGrid  one direct call of a grid-mutating method on a timetable    *)
(*             drawn from a bounded family of grids.                       *)
(*   SpecScore one call of findBestAssignment or calculateAssignmentScore  *)
(*             on drawn grids and counters.                                *)
(*   SpecConstraints  one call of a ConstraintManager method on a drawn    *)
(*             appState.                                                   *)
(*   SpecLevels  Spec for a school whose second class has a level that is  *)
(*             not in the level map.                                       *)
(*   SpecApp   one TimetableApp object (src/unnamed/part_003): edits,      *)
(*             saves, undo, redo, import and backup restore.               *)
(***************************************************************************)
EXTENDS Integers, Sequences, FiniteSets, TLC

VARIABLES
    scenario,            \* the school the generator was constructed for:
                         \* "school" (two classes, two subjects, a two-day
                         \* week), "levels" (the same with class levels
                         \* S.1 and P.7) or "week" (one class, one subject,
                         \* the seven-day week of this.days)
    teachers,            \* appState.teachers: id -> [subjects, class_levels,
                         \* availability]
    targets,             \* appState.subjects: id -> target_lessons_per_week
    prefer_morning,      \* appState.constraints.prefer_morning
    isGenerating,        \* this.isGenerating
    generationCancelled, \* this.generationCancelled
    pc,                  \* where generate() is: "idle" (not running), "delay2"
                         \* (suspended in assignLessons' delay), "delay10"
                         \* (suspended in resolveConflicts' delay)
    timetable,           \* the timetable object (generate's local, or the
                         \* argument of a direct call)
    asg,                 \* the locals of assignLessons
    rsv,                 \* the locals of resolveConflicts
    outcome,             \* how the last generate() call ended
    calls,               \* generate() calls made so far
    op,                  \* the last direct call, its arguments, its result
    appPeriods,          \* appState.periods as the ConstraintManager reads it
    app                  \* the TimetableApp object: its appState, the state
                         \* object its generator and constraint manager hold,
                         \* and its history

vars == <<scenario, teachers, targets, prefer_morning, isGenerating, generationCancelled,
          pc, timetable, asg, rsv, outcome, calls, op, appPeriods, app>>

(***************************************************************************)
(* Bounds of the model.                                                    *)
(***************************************************************************)
MaxTarget == 2
MaxCalls == 2
MaxInitLessons == 2
MaxPeriods == 3
MaxWeekTarget == 15
MaxLoad == 55
MaxAppOps == 3

(***************************************************************************)
(* Entities.                                                               *)
(***************************************************************************)
NULL == "null"

\* this.days (part_001:7): all seven days in the "week" scenario, the first
\* two of them in the "school" scenario.
days ==
    IF scenario = "week"
    THEN <<"Monday", "Tuesday", "Wednesday", "Thursday", "Friday", "Saturday",
           "Sunday">>
    ELSE <<"Monday", "Tuesday">>

DaySet == {days[i] : i \in 1..Len(days)}

\* appState.periods of the generator, in order: two lesson periods around a
\* break.  A time "HH:MM" is the pair <<HH, MM>>.
periods ==
    <<[id |-> "p1", type |-> "lesson", start_time |-> <<8, 0>>,  end_time |-> <<9, 0>>],
      [id |-> "pb", type |-> "break",  start_time |-> <<9, 0>>,  end_time |-> <<9, 20>>],
      [id |-> "p2", type |-> "lesson", start_time |-> <<13, 0>>, end_time |-> <<14, 0>>]>>

PeriodIds == {periods[i].id : i \in 1..Len(periods)}

PeriodOf(pid) == CHOOSE p \in {periods[i] : i \in 1..Len(periods)} : p.id = pid

LessonPeriodIds == {pid \in PeriodIds : PeriodOf(pid).type = "lesson"}

\* appState.classes, in order.
classes ==
    IF scenario = "week"
    THEN <<[id |-> "c1", level |-> "S.1", stream |-> "A"]>>
    ELSE IF scenario = "levels"
    THEN <<[id |-> "c1", level |-> "S.1", stream |-> "A"],
           [id |-> "c2", level |-> "P.7", stream |-> "A"]>>
    ELSE <<[id |-> "c1", level |-> "S.1", stream |-> "A"],
           [id |-> "c2", level |-> "S.2", stream |-> "A"]>>

ClassIds == {classes[i].id : i \in 1..Len(classes)}

ClassOf(cid) == CHOOSE c \in {classes[i] : i \in 1..Len(classes)} : c.id = cid

Levels == {classes[i].level : i \in 1..Len(classes)}

\* appState.subjects, in order; target_lessons_per_week is the variable targets.
subjects ==
    IF scenario = "week"
    THEN <<[id |-> "s1", priority |-> "high"]>>
    ELSE <<[id |-> "s1", priority |-> "high"],
           [id |-> "s2", priority |-> "low"]>>

SubjectIds == {subjects[i].id : i \in 1..Len(subjects)}

SubjectOf(sid) == CHOOSE s \in {subjects[i] : i \in 1..Len(subjects)} : s.id = sid

\* appState.teachers, in order: the teachers the variable teachers holds, with
\* their subjects and class_levels.
AllTeacherIds == <<"t1", "t2">>

teacherIds ==
    LET Present(t) == t \in DOMAIN teachers
    IN  SelectSeq(AllTeacherIds, Present)

TeacherIds == DOMAIN teachers

RoomIds == {"r1"}

(***************************************************************************)
(* Array.prototype.sort; Array.prototype.filter is SelectSeq.              *)
(***************************************************************************)
\* Array.prototype.sort with a comparator that is a weak order: stable.
\* before holds the pairs <<i, j>> of indices with compare(s[i], s[j]) < 0.
stableSort(s, before) ==
    LET pos(i) == 1 + Cardinality({j \in 1..Len(s) :
                        \/ <<j, i>> \in before
                        \/ (<<i, j>> \notin before /\ j < i)})
    IN  [k \in 1..Len(s) |-> s[CHOOSE i \in 1..Len(s) : pos(i) = k]]

(***************************************************************************)
(* The grid.                                                               *)
(***************************************************************************)
\* initializeTimetable (part_001:132-152)
initializeTimetable ==
    [d \in DaySet |-> [p \in PeriodIds |-> [c \in ClassIds |->
        [day        |-> d,
         period_id  |-> p,
         class_id   |-> c,
         subject_id |-> NULL,
         teacher_id |-> NULL,
         room_id    |-> NULL,
         is_break   |-> PeriodOf(p).type # "lesson"]]]]

\* placeFixedElements (part_001:154-165)
placeFixedElements(tt) ==
    [d \in DOMAIN tt |-> [p \in DOMAIN tt[d] |-> [c \in DOMAIN tt[d][p] |->
        IF PeriodOf(p).type # "lesson"
        THEN [tt[d][p][c] EXCEPT !.is_break = TRUE]
        ELSE tt[d][p][c]]]]

\* createLessonSlots (part_001:167-184): day-major, then period, then class.
\* A lesson slot is <<day, period_id, class_id>>; its "assigned" flag is kept
\* in asg.assigned.
createLessonSlots ==
    LET nP == Len(periods)
        nC == Len(classes)
        all == [k \in 1..(Len(days) * nP * nC) |->
                  <<days[((k - 1) \div (nP * nC)) + 1],
                    periods[(((k - 1) \div nC) % nP) + 1].id,
                    classes[((k - 1) % nC) + 1].id>>]
        IsLesson(sl) == PeriodOf(sl[2]).type = "lesson"
    IN  SelectSeq(all, IsLesson)

\* A variant of isTeacherAvailable that never finds the teacher busy.
isTeacherAvailableAlways(teacherId, day, periodId, tt) == TRUE

\* isTeacherAvailable (part_001:414-422)
isTeacherAvailable(teacherId, day, periodId, tt) ==
    ~\E c \in DOMAIN tt[day][periodId] : tt[day][periodId][c].teacher_id = teacherId

\* isTeacherAvailableById (part_001:424-431)
isTeacherAvailableById(teacherId, day, periodId, tt, excludeClassId) ==
    ~\E c \in DOMAIN tt[day][periodId] :
        c # excludeClassId /\ tt[day][periodId][c].teacher_id = teacherId

\* A variant of assignLesson that writes the subject and leaves the teacher out.
assignLessonSubjectOnly(tt, a) ==
    [tt EXCEPT ![a.day][a.period_id][a.class_id] =
        [@ EXCEPT !.subject_id = a.subject_id,
                  !.is_break = FALSE]]

\* assignLesson (part_001:404-412)
assignLesson(tt, a) ==
    [tt EXCEPT ![a.day][a.period_id][a.class_id] =
        [@ EXCEPT !.subject_id = a.subject_id,
                  !.teacher_id = a.teacher_id,
                  !.is_break = FALSE]]

(***************************************************************************)
(* The assignment engine.                                                  *)
(***************************************************************************)
\* getClassLevelDifficulty (part_001:255-261): levelMap[level] || 1
getClassLevelDifficulty(level) ==
    CASE level = "S.1" -> 1
      [] level = "S.2" -> 2
      [] level = "S.3" -> 3
      [] level = "S.4" -> 4
      [] level = "S.5" -> 5
      [] level = "S.6" -> 6
      [] OTHER -> 1

\* getAvailableTeachersForClass (part_001:263-268)
getAvailableTeachersForClass(classId) ==
    LET HasLevel(t) == ClassOf(classId).level \in teachers[t].class_levels
    IN  SelectSeq(teacherIds, HasLevel)

\* the comparator of sortSlotsByDifficulty (part_001:240-252)
compareSlots(a, b) ==
    LET levelDiff == getClassLevelDifficulty(ClassOf(b[3]).level)
                       - getClassLevelDifficulty(ClassOf(a[3]).level)
    IN  IF levelDiff # 0
        THEN levelDiff
        ELSE Len(getAvailableTeachersForClass(b[3]))
               - Len(getAvailableTeachersForClass(a[3]))

\* sortSlotsByDifficulty (part_001:238-253)
sortSlotsByDifficulty(slots) ==
    stableSort(slots, {ij \in (1..Len(slots)) \X (1..Len(slots)) :
                          compareSlots(slots[ij[1]], slots[ij[2]]) < 0})

\* subject.target_lessons_per_week || 5 (part_001:361, 648, 744)
targetLessons(sid) == IF targets[sid] = 0 THEN 5 ELSE targets[sid]

subjectIds == [i \in 1..Len(subjects) |-> subjects[i].id]

\* getNeededSubjects (part_001:357-377): the ids of the subjects under target,
\* largest remaining deficit first.
getNeededSubjects(classId, subjectFrequency) ==
    LET Under(sid) == subjectFrequency[classId][sid] < targetLessons(sid)
        prio(sid) == targetLessons(sid) - subjectFrequency[classId][sid]
        sorted(needed) ==
            stableSort(needed, {ij \in (1..Len(needed)) \X (1..Len(needed)) :
                                   prio(needed[ij[2]]) - prio(needed[ij[1]]) < 0})
    IN  sorted(SelectSeq(subjectIds, Under))

\* priorityWeight[subject.priority] || 0 (part_001:389-394)
priorityWeight(priority) ==
    CASE priority = "high" -> 10
      [] priority = "medium" -> 5
      [] OTHER -> 0

\* calculateAssignmentScore (part_001:379-402), times two: the class-load
\* weight 1.5 becomes 3 and every comparison of two scores is unchanged.
calculateAssignmentScore2(teacherId, sid, teacherLoad, classLoad, classId, day) ==
    LET score == 200 - 4 * teacherLoad[teacherId]
                     - 3 * classLoad[classId][day]
                     + 2 * priorityWeight(SubjectOf(sid).priority)
                     + (IF prefer_morning /\ SubjectOf(sid).priority = "high"
                        THEN 10 ELSE 0)
    IN  IF score > 0 THEN score ELSE 0

\* The teachers findBestAssignment tries for one needed subject, as
\* (subject, teacher) pairs (part_001:321-335).
candidatesFor(sid, slot, tt) ==
    LET Ok(t) == /\ ClassOf(slot[3]).level \in teachers[t].class_levels
                 /\ sid \in teachers[t].subjects
                 /\ isTeacherAvailable(t, slot[1], slot[2], tt)
        pair(t) == [subject_id |-> sid, teacher_id |-> t]
        pairs(ts) == [i \in 1..Len(ts) |-> pair(ts[i])]
    IN  pairs(SelectSeq(teacherIds, Ok))

\* The pairs findBestAssignment scores, in the order of its two loops
\* (part_001:329-336), from needed subject k on.
RECURSIVE candidatesFrom(_, _, _, _)
candidatesFrom(k, needed, slot, tt) ==
    IF k > Len(needed) THEN <<>>
    ELSE candidatesFor(needed[k], slot, tt) \o candidatesFrom(k + 1, needed, slot, tt)

candidates(slot, tt, subjectFrequency) ==
    candidatesFrom(1, getNeededSubjects(slot[3], subjectFrequency), slot, tt)

\* A variant of bestOf that starts from bestScore = 0: a pair is taken only
\* when its score is above 0.
bestOfPositive(cs, slot, teacherLoad, classLoad) ==
    LET sc(i) == calculateAssignmentScore2(cs[i].teacher_id, cs[i].subject_id,
                                           teacherLoad, classLoad, slot[3], slot[1])
        IsBest(i) == /\ sc(i) > 0
                     /\ \A j \in 1..Len(cs) :
                           /\ sc(j) <= sc(i)
                           /\ (j < i => sc(j) < sc(i))
        assignment(c) == [day        |-> slot[1],
                          period_id  |-> slot[2],
                          class_id   |-> slot[3],
                          teacher_id |-> c.teacher_id,
                          subject_id |-> c.subject_id]
    IN  IF \A i \in 1..Len(cs) : ~IsBest(i) THEN <<>>
        ELSE <<assignment(cs[CHOOSE i \in 1..Len(cs) : IsBest(i)])>>

\* A variant of bestOf that takes the first pair whatever the scores are.
bestOfFirst(cs, slot, teacherLoad, classLoad) ==
    IF cs = <<>> THEN <<>>
    ELSE <<[day        |-> slot[1],
            period_id  |-> slot[2],
            class_id   |-> slot[3],
            teacher_id |-> cs[1].teacher_id,
            subject_id |-> cs[1].subject_id]>>

\* The choice among the scored pairs (part_001:341-350): the first pair of
\* maximal score ("score > bestScore" from bestScore = -1); <<>> is null.
bestOf(cs, slot, teacherLoad, classLoad) ==
    LET sc(i) == calculateAssignmentScore2(cs[i].teacher_id, cs[i].subject_id,
                                           teacherLoad, classLoad, slot[3], slot[1])
        IsBest(i) == \A j \in 1..Len(cs) :
                        /\ sc(j) <= sc(i)
                        /\ (j < i => sc(j) < sc(i))
        assignment(c) == [day        |-> slot[1],
                          period_id  |-> slot[2],
                          class_id   |-> slot[3],
                          teacher_id |-> c.teacher_id,
                          subject_id |-> c.subject_id]
    IN  IF cs = <<>> THEN <<>>
        ELSE <<assignment(cs[CHOOSE i \in 1..Len(cs) : IsBest(i)])>>

\* findBestAssignment (part_001:312-355)
findBestAssignment(slot, tt, teacherLoad, classLoad, subjectFrequency) ==
    bestOf(candidates(slot, tt, subjectFrequency), slot, teacherLoad, classLoad)

\* initializeTeacherLoad, initializeClassLoad, initializeSubjectFrequency and
\* the other locals at the top of assignLessons (part_001:186-191, 282-310)
assignLessonsLocals(lessonSlots) ==
    [teacherLoad      |-> [t \in TeacherIds |-> 0],
     classLoad        |-> [c \in ClassIds |-> [d \in DaySet |-> 0]],
     subjectFrequency |-> [c \in ClassIds |-> [s \in SubjectIds |-> 0]],
     attempt          |-> 0,
     lessonSlots      |-> lessonSlots,
     sortedSlots      |-> <<>>,
     idx              |-> 1,
     unassignedSlots  |-> <<>>,
     assigned         |-> {},
     finalUnassigned  |-> 0]

maxAttempts == 5

\* resetSomeSlots (part_001:270-280): the slots whose flag is cleared.
resetSomeSlots(slots, currentAttempt) ==
    \* Math.floor(slots.length * (0.3 + currentAttempt / maxAttempts * 0.4))
    LET resetCount == (Len(slots) * (3 * maxAttempts + 4 * currentAttempt))
                         \div (10 * maxAttempts)
    IN  {slots[i] : i \in 1..(IF resetCount < Len(slots) THEN resetCount ELSE Len(slots))}

\* A variant of applyBest that leaves teacherLoad as it is.
applyBestNoTeacherLoad(tt, a, slot, best) ==
    IF best # <<>>
    THEN [tt |-> assignLesson(tt, best[1]),
          a  |-> [a EXCEPT
                    !.assigned = @ \cup {slot},
                    !.classLoad[best[1].class_id][best[1].day] = @ + 1,
                    !.subjectFrequency[best[1].class_id][best[1].subject_id] = @ + 1]]
    ELSE [tt |-> tt,
          a  |-> [a EXCEPT !.unassignedSlots = Append(@, slot)]]

\* The branches of the for loop's body (part_001:205-214) on bestAssignment.
applyBest(tt, a, slot, best) ==
    IF best # <<>>
    THEN [tt |-> assignLesson(tt, best[1]),
          a  |-> [a EXCEPT
                    !.assigned = @ \cup {slot},
                    !.teacherLoad[best[1].teacher_id] = @ + 1,
                    !.classLoad[best[1].class_id][best[1].day] = @ + 1,
                    !.subjectFrequency[best[1].class_id][best[1].subject_id] = @ + 1]]
    ELSE [tt |-> tt,
          a  |-> [a EXCEPT !.unassignedSlots = Append(@, slot)]]

\* The body of the for loop for one slot (part_001:203-214).
processSlot(tt, a, slot) ==
    applyBest(tt, a, slot,
              findBestAssignment(slot, tt, a.teacherLoad, a.classLoad,
                                 a.subjectFrequency))

\* A variant of suspendedAfter in which the for loop does not move on.
suspendedAfterSameSlot(r) ==
    [tt |-> r.tt, suspended |-> TRUE, a |-> r.a]

\* assignLessons suspended in "await this.delay(2)" after a slot (part_001:216-217).
suspendedAfter(r) ==
    [tt |-> r.tt, suspended |-> TRUE, a |-> [r.a EXCEPT !.idx = @ + 1]]

\* assignLessons after its while loop (part_001:229-235).
assignLessonsEnd(tt, a) ==
    [tt |-> tt, suspended |-> FALSE,
     a |-> [a EXCEPT !.finalUnassigned =
              Cardinality({i \in 1..Len(a.lessonSlots) :
                              a.lessonSlots[i] \notin a.assigned})]]

\* assignLessons (part_001:186-236) from its current position to its next
\* "await this.delay(2)" (suspended = TRUE) or to its return.  a.idx is the
\* next index of sortedSlots the for loop looks at; entering = TRUE stands at
\* the while condition.
RECURSIVE assignLessonsRun(_, _, _, _)
assignLessonsRun(tt, a, entering, cancelled) ==
    IF entering
    THEN IF a.attempt < maxAttempts /\ ~cancelled
         THEN assignLessonsRun(tt,
                  [a EXCEPT !.unassignedSlots = <<>>,
                            !.sortedSlots = sortSlotsByDifficulty(a.lessonSlots),
                            !.idx = 1],
                  FALSE, cancelled)
         ELSE assignLessonsEnd(tt, a)
    ELSE IF a.idx <= Len(a.sortedSlots)
         THEN IF a.sortedSlots[a.idx] \in a.assigned
              THEN assignLessonsRun(tt, [a EXCEPT !.idx = @ + 1], FALSE, cancelled)
              ELSE suspendedAfter(processSlot(tt, a, a.sortedSlots[a.idx]))
         ELSE IF a.unassignedSlots = <<>>
              THEN assignLessonsEnd(tt, a)
              ELSE assignLessonsRun(tt,
                       [a EXCEPT
                          !.assigned = @ \ resetSomeSlots(a.unassignedSlots, a.attempt),
                          !.lessonSlots = a.unassignedSlots,
                          !.attempt = @ + 1],
                       TRUE, cancelled)

(***************************************************************************)
(* The conflict resolver.                                                  *)
(***************************************************************************)
lessonPeriods ==
    LET IsLesson(p) == p.type = "lesson"
    IN  SelectSeq(periods, IsLesson)

\* The lesson (day, period) pairs in the order of the nested loops over
\* this.days and this.appState.periods.
lessonTimes ==
    [k \in 1..(Len(days) * Len(lessonPeriods)) |->
        [day      |-> days[((k - 1) \div Len(lessonPeriods)) + 1],
         periodId |-> lessonPeriods[((k - 1) % Len(lessonPeriods)) + 1].id]]

classIds == [i \in 1..Len(classes) |-> classes[i].id]

\* The slots findAllConflicts groups at one (day, period) (part_001:496-507),
\* as {classId, slot} entries in class order.
bookedAt(tt, day, periodId) ==
    LET Booked(c) == tt[day][periodId][c].teacher_id # NULL
                       /\ ~tt[day][periodId][c].is_break
        entry(c) == [classId |-> c, slot |-> tt[day][periodId][c]]
        entries(cs) == [i \in 1..Len(cs) |-> entry(cs[i])]
    IN  entries(SelectSeq(classIds, Booked))

\* The conflicts pushed for one (day, period) (part_001:509-519): the teachers
\* in the order of their first entry, each with its entries, when more than one.
RECURSIVE conflictsAmong(_, _, _, _)
conflictsAmong(k, booked, day, periodId) ==
    IF k > Len(booked) THEN <<>>
    ELSE LET Mine(e) == e.slot.teacher_id = booked[k].slot.teacher_id
             IsFirst == \A j \in 1..(k - 1) : ~Mine(booked[j])
             conflict(as) == [type        |-> "teacher_double_booking",
                              teacherId   |-> booked[k].slot.teacher_id,
                              day         |-> day,
                              periodId    |-> periodId,
                              assignments |-> as]
             pushed(as) == IF IsFirst /\ Len(as) > 1 THEN <<conflict(as)>> ELSE <<>>
         IN  pushed(SelectSeq(booked, Mine)) \o conflictsAmong(k + 1, booked, day, periodId)

\* findAllConflicts (part_001:488-524) from lesson time k on.
RECURSIVE findAllConflictsFrom(_, _)
findAllConflictsFrom(k, tt) ==
    IF k > Len(lessonTimes) THEN <<>>
    ELSE conflictsAmong(1, bookedAt(tt, lessonTimes[k].day, lessonTimes[k].periodId),
                        lessonTimes[k].day, lessonTimes[k].periodId)
           \o findAllConflictsFrom(k + 1, tt)

findAllConflicts(tt) == findAllConflictsFrom(1, tt)

\* A variant of findAlternativeSlot that does not ask whether the teacher is
\* free at the alternative slot.
findAlternativeSlotAnyTime(originalSlot, teacherId, tt) ==
    LET Fits(t) ==
            /\ ~(t.day = originalSlot.day /\ t.periodId = originalSlot.period_id)
            /\ tt[t.day][t.periodId][originalSlot.class_id].subject_id = NULL
            /\ ~tt[t.day][t.periodId][originalSlot.class_id].is_break
        first(ts) == IF ts = <<>> THEN <<>> ELSE <<ts[1]>>
    IN  first(SelectSeq(lessonTimes, Fits))

\* findAlternativeSlot (part_001:567-584): <<>> stands for null.
findAlternativeSlot(originalSlot, teacherId, tt) ==
    LET Fits(t) ==
            /\ ~(t.day = originalSlot.day /\ t.periodId = originalSlot.period_id)
            /\ tt[t.day][t.periodId][originalSlot.class_id].subject_id = NULL
            /\ ~tt[t.day][t.periodId][originalSlot.class_id].is_break
            /\ isTeacherAvailableById(teacherId, t.day, t.periodId, tt,
                                      originalSlot.class_id)
        first(ts) == IF ts = <<>> THEN <<>> ELSE <<ts[1]>>
    IN  first(SelectSeq(lessonTimes, Fits))

\* A variant of relocate that stores the moved slot object as it is, without
\* the day and period_id of its new position.
relocateVerbatim(conflict, tt, a, to) ==
    [tt EXCEPT
       ![to.day][to.periodId][a.classId] = a.slot,
       ![conflict.day][conflict.periodId][a.classId] =
           [day        |-> conflict.day,
            period_id  |-> conflict.periodId,
            class_id   |-> a.classId,
            subject_id |-> NULL,
            teacher_id |-> NULL,
            room_id    |-> NULL,
            is_break   |-> FALSE]]

\* A variant of relocate that writes the lesson into the alternative slot and
\* leaves the original slot as it was.
relocateKeepingOriginal(conflict, tt, a, to) ==
    [tt EXCEPT
       ![to.day][to.periodId][a.classId] =
           [a.slot EXCEPT !.day = to.day, !.period_id = to.periodId]]

\* The move resolveTeacherDoubleBooking makes (part_001:543-558): assignment a
\* of the conflict goes to the alternative slot "to".
relocate(conflict, tt, a, to) ==
    [tt EXCEPT
       ![to.day][to.periodId][a.classId] =
           [a.slot EXCEPT !.day = to.day, !.period_id = to.periodId],
       ![conflict.day][conflict.periodId][a.classId] =
           [day        |-> conflict.day,
            period_id  |-> conflict.periodId,
            class_id   |-> a.classId,
            subject_id |-> NULL,
            teacher_id |-> NULL,
            room_id    |-> NULL,
            is_break   |-> FALSE]]

\* resolveTeacherDoubleBooking (part_001:535-565): the first assignment after
\* the first one that has an alternative slot is moved there.
resolveTeacherDoubleBooking(conflict, tt) ==
    LET Movable(a) == findAlternativeSlot(a.slot, conflict.teacherId, tt) # <<>>
        moveFirst(ms) ==
            IF ms = <<>>
            THEN [tt |-> tt, resolved |-> FALSE]
            ELSE [tt |-> relocate(conflict, tt, ms[1],
                                  findAlternativeSlot(ms[1].slot, conflict.teacherId,
                                                      tt)[1]),
                  resolved |-> TRUE]
    IN  moveFirst(SelectSeq(Tail(conflict.assignments), Movable))

\* The for loop over one iteration's conflicts (part_001:469-476).
RECURSIVE resolveEach(_, _, _)
resolveEach(conflicts, tt, resolvedThisIteration) ==
    IF conflicts = <<>>
    THEN [tt |-> tt, resolvedThisIteration |-> resolvedThisIteration]
    ELSE LET next(r) == resolveEach(Tail(conflicts), r.tt,
                            resolvedThisIteration + (IF r.resolved THEN 1 ELSE 0))
         IN  next(resolveTeacherDoubleBooking(Head(conflicts), tt))

maxIterations == 100

\* A variant of resolveConflictsRun without the break of line 480: an
\* iteration that repaired nothing is followed by another one.
resolveConflictsRunNoBreak(tt, iteration, conflictsResolved, cancelled) ==
    LET returns == [tt |-> tt, suspended |-> FALSE,
                    iteration |-> iteration, conflictsResolved |-> conflictsResolved]
        after(r) == [tt |-> r.tt,
                     suspended |-> TRUE,
                     iteration |-> iteration,
                     conflictsResolved |-> conflictsResolved + r.resolvedThisIteration]
        iterate(conflicts) == IF conflicts = <<>> THEN returns
                              ELSE after(resolveEach(conflicts, tt, 0))
    IN  IF ~(iteration < maxIterations /\ ~cancelled)
        THEN returns
        ELSE iterate(findAllConflicts(tt))

\* resolveConflicts (part_001:461-486) from the head of its for loop to its
\* next "await this.delay(10)" (suspended = TRUE) or to its return.  The flag
\* cannot change within an iteration, so line 471 never breaks.
resolveConflictsRun(tt, iteration, conflictsResolved, cancelled) ==
    LET returns == [tt |-> tt, suspended |-> FALSE,
                    iteration |-> iteration, conflictsResolved |-> conflictsResolved]
        after(r) == [tt |-> r.tt,
                     suspended |-> r.resolvedThisIteration # 0,
                     iteration |-> iteration,
                     conflictsResolved |-> conflictsResolved + r.resolvedThisIteration]
        iterate(conflicts) == IF conflicts = <<>> THEN returns
                              ELSE after(resolveEach(conflicts, tt, 0))
    IN  IF ~(iteration < maxIterations /\ ~cancelled)
        THEN returns
        ELSE iterate(findAllConflicts(tt))

\* resolveConflicts called and awaited with no cancelGeneration() in between.
RECURSIVE resolveConflicts(_, _, _)
resolveConflicts(tt, iteration, conflictsResolved) ==
    LET next(r) == IF r.suspended
                   THEN resolveConflicts(r.tt, r.iteration + 1, r.conflictsResolved)
                   ELSE r
    IN  next(resolveConflictsRun(tt, iteration, conflictsResolved, FALSE))

(***************************************************************************)
(* The load balancer and the distribution optimizer.                       *)
(***************************************************************************)
\* The slots transferLessons scans, in the order of its three loops
\* (part_001:619-623).
slotKeys ==
    [k \in 1..(Len(lessonTimes) * Len(classIds)) |->
        [day      |-> lessonTimes[((k - 1) \div Len(classIds)) + 1].day,
         periodId |-> lessonTimes[((k - 1) \div Len(classIds)) + 1].periodId,
         classId  |-> classIds[((k - 1) % Len(classIds)) + 1]]]

\* transferLessons (part_001:617-637): the first slot of fromTeacher that
\* toTeacher can take gets toTeacher.
transferLessons(fromTeacher, toTeacher, tt) ==
    LET Can(k) ==
            /\ tt[k.day][k.periodId][k.classId].teacher_id = fromTeacher
            /\ tt[k.day][k.periodId][k.classId].subject_id
                   \in teachers[toTeacher].subjects
            /\ isTeacherAvailableById(toTeacher, k.day, k.periodId, tt, k.classId)
        transfer(ks) ==
            IF ks = <<>>
            THEN [tt |-> tt, result |-> FALSE]
            ELSE [tt |-> [tt EXCEPT
                            ![ks[1].day][ks[1].periodId][ks[1].classId].teacher_id
                                = toTeacher],
                  result |-> TRUE]
    IN  transfer(SelectSeq(slotKeys, Can))

\* calculateTeacherLoads (part_001:755-776): an object keyed by teacher id.
calculateTeacherLoads(tt) ==
    [t \in TeacherIds |->
        Cardinality({k \in 1..Len(slotKeys) :
            tt[slotKeys[k].day][slotKeys[k].periodId][slotKeys[k].classId].teacher_id
                = t})]

\* The sum of the loads of the teachers ts.
RECURSIVE sumLoads(_, _)
sumLoads(loads, ts) ==
    IF ts = {} THEN 0
    ELSE LET t == CHOOSE x \in ts : TRUE
         IN  loads[t] + sumLoads(loads, ts \ {t})

\* The two lists of balanceTeacherWorkload (part_001:593-604) for the loads
\* of a grid: load > avgLoad + 2 and load < avgLoad - 2, the mean taken over
\* the teachers, compared without dividing.
overloaded(tt) ==
    LET loads == calculateTeacherLoads(tt)
        n     == Cardinality(TeacherIds)
        IsOver(t) == loads[t] * n > sumLoads(loads, TeacherIds) + 2 * n
    IN  SelectSeq(teacherIds, IsOver)

underloaded(tt) ==
    LET loads == calculateTeacherLoads(tt)
        n     == Cardinality(TeacherIds)
        IsUnder(t) == loads[t] * n < sumLoads(loads, TeacherIds) - 2 * n
    IN  SelectSeq(teacherIds, IsUnder)

\* balanceTeacherWorkload (part_001:586-615): how the call ends.  Line 590
\* calls teacherLoads.reduce on the object calculateTeacherLoads returns, which
\* has no reduce: a TypeError before any transfer.
balanceTeacherWorkload(cancelled) ==
    IF cancelled THEN "returned" ELSE "TypeError"

\* validateTimetable (part_001:707-753): how the call ends.  Line 733 calls
\* teacherLoads.reduce on the same object.
validateTimetable == "TypeError"

\* calculateSubjectDistribution (part_001:659-678)
calculateSubjectDistribution(classId, tt) ==
    [s \in SubjectIds |->
        Cardinality({k \in 1..Len(lessonTimes) :
            tt[lessonTimes[k].day][lessonTimes[k].periodId][classId].subject_id = s})]

\* addMissingLessons (part_001:680-705) from the k-th of the lesson times on.
RECURSIVE addMissingFrom(_, _, _, _, _, _, _)
addMissingFrom(k, times, classId, subjectId, missingCount, added, tt) ==
    IF k > Len(times) \/ added >= missingCount
    THEN tt
    ELSE LET Can(t) == /\ subjectId \in teachers[t].subjects
                       /\ ClassOf(classId).level \in teachers[t].class_levels
                       /\ isTeacherAvailableById(t, times[k].day, times[k].periodId,
                                                 tt, classId)
             fill(found) ==
                 IF /\ tt[times[k].day][times[k].periodId][classId].subject_id = NULL
                    /\ ~tt[times[k].day][times[k].periodId][classId].is_break
                    /\ found # <<>>
                 THEN addMissingFrom(k + 1, times, classId, subjectId, missingCount,
                          added + 1,
                          [tt EXCEPT ![times[k].day][times[k].periodId][classId] =
                              [@ EXCEPT !.subject_id = subjectId,
                                        !.teacher_id = found[1]]])
                 ELSE addMissingFrom(k + 1, times, classId, subjectId, missingCount,
                                     added, tt)
         IN  fill(SelectSeq(teacherIds, Can))

\* A variant of addMissingLessons that scans the lesson periods of the first
\* day only.
addMissingLessonsFirstDay(classId, subjectId, missingCount, tt) ==
    addMissingFrom(1, SubSeq(lessonTimes, 1, Len(lessonPeriods)), classId, subjectId,
                   missingCount, 0, tt)

\* addMissingLessons (part_001:680-705)
addMissingLessons(classId, subjectId, missingCount, tt) ==
    addMissingFrom(1, lessonTimes, classId, subjectId, missingCount, 0, tt)

\* The loop over one class's distribution (part_001:646-654) from subject i on;
\* the distribution is the one computed before the loop.
RECURSIVE topUpSubjects(_, _, _, _)
topUpSubjects(i, classId, distribution, tt) ==
    IF i > Len(subjectIds) THEN tt
    ELSE topUpSubjects(i + 1, classId, distribution,
             IF distribution[subjectIds[i]] < targetLessons(subjectIds[i])
             THEN addMissingLessons(classId, subjectIds[i],
                      targetLessons(subjectIds[i]) - distribution[subjectIds[i]], tt)
             ELSE tt)

\* optimizeSubjectDistribution (part_001:639-657) from class i on, not cancelled.
RECURSIVE optimizeSubjectDistributionFrom(_, _)
optimizeSubjectDistributionFrom(i, tt) ==
    IF i > Len(classIds) THEN tt
    ELSE optimizeSubjectDistributionFrom(i + 1,
             topUpSubjects(1, classIds[i],
                           calculateSubjectDistribution(classIds[i], tt), tt))

optimizeSubjectDistribution(tt) == optimizeSubjectDistributionFrom(1, tt)

(***************************************************************************)
(* Manual move.                                                            *)
(***************************************************************************)
\* A variant of moveFields that leaves the room in the source slot.
moveFieldsKeepRoom(tt, from, to, fromSlot) ==
    [[tt EXCEPT ![to.day][to.period_id][to.class_id] =
          [@ EXCEPT !.subject_id = fromSlot.subject_id,
                    !.teacher_id = fromSlot.teacher_id,
                    !.room_id = fromSlot.room_id]]
        EXCEPT ![from.day][from.period_id][from.class_id] =
          [@ EXCEPT !.subject_id = NULL,
                    !.teacher_id = NULL]]

\* The two writes of a successful moveLesson (part_001:801-807), in order.
moveFields(tt, from, to, fromSlot) ==
    [[tt EXCEPT ![to.day][to.period_id][to.class_id] =
          [@ EXCEPT !.subject_id = fromSlot.subject_id,
                    !.teacher_id = fromSlot.teacher_id,
                    !.room_id = fromSlot.room_id]]
        EXCEPT ![from.day][from.period_id][from.class_id] =
          [@ EXCEPT !.subject_id = NULL,
                    !.teacher_id = NULL,
                    !.room_id = NULL]]

\* A variant of moveLesson without the check of the target's is_break.
moveLessonOntoBreak(tt, from, to) ==
    IF tt[to.day][to.period_id][to.class_id].subject_id # NULL
    THEN [tt |-> tt, success |-> FALSE,
          message |-> "Target slot is already occupied"]
    ELSE IF ~isTeacherAvailableById(
                tt[from.day][from.period_id][from.class_id].teacher_id,
                to.day, to.period_id, tt, from.class_id)
    THEN [tt |-> tt, success |-> FALSE,
          message |-> "Teacher not available in target slot"]
    ELSE [tt |-> moveFields(tt, from, to, tt[from.day][from.period_id][from.class_id]),
          success |-> TRUE,
          message |-> "Lesson moved successfully"]

\* moveLesson (part_001:782-817); from and to are [day, period_id, class_id].
moveLesson(tt, from, to) ==
    IF tt[to.day][to.period_id][to.class_id].is_break
    THEN [tt |-> tt, success |-> FALSE,
          message |-> "Cannot move lesson to break period"]
    ELSE IF tt[to.day][to.period_id][to.class_id].subject_id # NULL
    THEN [tt |-> tt, success |-> FALSE,
          message |-> "Target slot is already occupied"]
    ELSE IF ~isTeacherAvailableById(
                tt[from.day][from.period_id][from.class_id].teacher_id,
                to.day, to.period_id, tt, from.class_id)
    THEN [tt |-> tt, success |-> FALSE,
          message |-> "Teacher not available in target slot"]
    ELSE [tt |-> moveFields(tt, from, to, tt[from.day][from.period_id][from.class_id]),
          success |-> TRUE,
          message |-> "Lesson moved successfully"]

(***************************************************************************)
(* generate(), from one await to the next.                                 *)
(***************************************************************************)
NoOp == [name |-> "none", from |-> <<>>, to |-> <<>>, success |-> FALSE]

NoLocals == assignLessonsLocals(<<>>)

NoResolve == [iteration |-> 0, conflictsResolved |-> 0]

\* history.maxSize (part_003:22)
maxSize == 50

\* The TimetableApp as its constructor leaves it (part_003:8-36), before
\* init() has run.  appState stands for the data of the object this.appState
\* refers to, of which the model keeps the periods list (the lists of
\* subjects, classes and teachers, the constraints and the timetable are
\* loaded, replaced and copied by the same statements).  timetableGenerator
\* and constraintManager stand for the data of the object each of them holds
\* as its own this.appState once constructed; sameObject tells whether that
\* object is the one this.appState refers to.  saved tells whether the last
\* handler reached saveToHistory.
newApp ==
    [appState           |-> [periods |-> <<>>],
     constructed        |-> FALSE,
     timetableGenerator |-> [periods |-> <<>>],
     constraintManager  |-> [periods |-> <<>>],
     sameObject         |-> FALSE,
     past               |-> <<>>,
     future             |-> <<>>,
     ops                |-> 0,
     last               |-> "none",
     saved              |-> FALSE]

\* A variant of validateData without the check of the teachers.
validateDataNoTeachers ==
    /\ Len(periods) # 0
    /\ Len(subjects) # 0
    /\ Len(classes) # 0

\* validateData (part_001:90-130): false when a collection is empty.
validateData ==
    /\ Len(periods) # 0
    /\ Len(subjects) # 0
    /\ Len(classes) # 0
    /\ Len(teacherIds) # 0

\* The rest of optimizeTimetable after resolveConflicts has returned
\* (part_001:456-458), then generate's lines 45-56: the error the call ends
\* with, or "returned".
afterResolveConflicts(cancelled) ==
    IF balanceTeacherWorkload(cancelled) # "returned"
    THEN balanceTeacherWorkload(cancelled)
    ELSE \* optimizeSubjectDistribution returns at once: the flag is set
         validateTimetable

\* generate where resolveConflicts suspends or returns (part_001:455, 481).
afterResolveRun(r, cancelled) ==
    [tt      |-> r.tt,
     pc      |-> IF r.suspended THEN "delay10" ELSE "idle",
     outcome |-> IF r.suspended THEN "running" ELSE afterResolveConflicts(cancelled),
     rsv     |-> [iteration |-> r.iteration,
                  conflictsResolved |-> r.conflictsResolved]]

\* A variant of afterAssignLessons without the check of the cancellation flag.
afterAssignLessonsUnchecked(tt, cancelled) ==
    afterResolveRun(resolveConflictsRun(tt, 0, 0, cancelled), cancelled)

\* generate from the return of assignLessons (part_001:39-65) to the next
\* await or to its end.
afterAssignLessons(tt, cancelled) ==
    IF cancelled
    THEN [tt |-> tt, pc |-> "idle", outcome |-> "cancelled", rsv |-> NoResolve]
    ELSE afterResolveRun(resolveConflictsRun(tt, 0, 0, cancelled), cancelled)

\* generate where assignLessons suspends or returns (part_001:37, 217).
afterAssignRun(r, cancelled) ==
    IF r.suspended
    THEN [tt |-> r.tt, pc |-> "delay2", outcome |-> "running", rsv |-> NoResolve,
          a |-> r.a]
    ELSE [a |-> r.a] @@ afterAssignLessons(r.tt, cancelled)

\* A variant of Generate without the reset of the cancellation flag: the new
\* generation runs under the flag it finds.
GenerateKeepsFlag ==
    /\ calls < MaxCalls
    /\ ~isGenerating
    /\ calls' = calls + 1
    /\ op' = [NoOp EXCEPT !.name = "generate", !.success = TRUE]
    /\ IF ~validateData
       THEN /\ isGenerating' = FALSE
            /\ pc' = "idle"
            /\ outcome' = "Invalid data"
            /\ UNCHANGED <<timetable, asg, rsv>>
       ELSE \E e \in {afterAssignRun(
                        assignLessonsRun(placeFixedElements(initializeTimetable),
                                         assignLessonsLocals(createLessonSlots),
                                         TRUE, generationCancelled),
                        generationCancelled)} :
                /\ asg' = e.a
                /\ timetable' = e.tt
                /\ pc' = e.pc
                /\ isGenerating' = (e.pc # "idle")
                /\ outcome' = e.outcome
                /\ rsv' = e.rsv
    /\ UNCHANGED <<app, appPeriods, scenario, teachers, targets, prefer_morning,
                   generationCancelled>>

\* generate (part_001:18-65) called while no generation is in progress: it
\* runs to the first delay of assignLessons, or to its end.
Generate ==
    /\ calls < MaxCalls
    /\ ~isGenerating
    /\ calls' = calls + 1
    /\ generationCancelled' = FALSE
    /\ op' = [NoOp EXCEPT !.name = "generate", !.success = TRUE]
    /\ IF ~validateData
       THEN /\ isGenerating' = FALSE
            /\ pc' = "idle"
            /\ outcome' = "Invalid data"
            /\ UNCHANGED <<timetable, asg, rsv>>
       ELSE \E e \in {afterAssignRun(
                        assignLessonsRun(placeFixedElements(initializeTimetable),
                                         assignLessonsLocals(createLessonSlots),
                                         TRUE, FALSE),
                        FALSE)} :
                /\ asg' = e.a
                /\ timetable' = e.tt
                /\ pc' = e.pc
                /\ isGenerating' = (e.pc # "idle")
                /\ outcome' = e.outcome
                /\ rsv' = e.rsv
    /\ UNCHANGED <<app, appPeriods, scenario, teachers, targets, prefer_morning>>

\* A variant of GenerateRejected in which the rejected call has already reset
\* the cancellation flag.
GenerateRejectedResetsFlag ==
    /\ calls < MaxCalls
    /\ isGenerating
    /\ calls' = calls + 1
    /\ generationCancelled' = FALSE
    /\ op' = [NoOp EXCEPT !.name = "generate", !.success = FALSE]
    /\ UNCHANGED <<app, appPeriods, scenario, teachers, targets, prefer_morning, isGenerating,
                   pc, timetable, asg, rsv, outcome>>

\* generate called while a generation is in progress (part_001:19-21).
GenerateRejected ==
    /\ calls < MaxCalls
    /\ isGenerating
    /\ calls' = calls + 1
    /\ op' = [NoOp EXCEPT !.name = "generate", !.success = FALSE]
    /\ UNCHANGED <<app, appPeriods, scenario, teachers, targets, prefer_morning, isGenerating,
                   generationCancelled, pc, timetable, asg, rsv, outcome>>

\* A delay's timer fires and generate runs on to its next await or to its end.
Resume ==
    /\ pc # "idle"
    /\ \E e \in {IF pc = "delay2"
                 THEN afterAssignRun(
                          assignLessonsRun(timetable, asg, FALSE, generationCancelled),
                          generationCancelled)
                 ELSE [a |-> asg] @@
                      afterResolveRun(
                          resolveConflictsRun(timetable, rsv.iteration + 1,
                                              rsv.conflictsResolved,
                                              generationCancelled),
                          generationCancelled)} :
           /\ asg' = e.a
           /\ timetable' = e.tt
           /\ pc' = e.pc
           /\ isGenerating' = (e.pc # "idle")
           /\ outcome' = e.outcome
           /\ rsv' = e.rsv
    /\ UNCHANGED <<app, appPeriods, scenario, teachers, targets, prefer_morning, generationCancelled, calls, op>>

\* cancelGeneration (part_001:67-69)
CancelGeneration ==
    /\ generationCancelled' = TRUE
    /\ UNCHANGED <<app, appPeriods, scenario, teachers, targets, prefer_morning, isGenerating, pc, timetable,
                   asg, rsv, outcome, calls, op>>

\* A teacher record: the subjects and class levels the teacher covers, and
\* teacher.availability, a map from some of the days to the period ids the
\* teacher can be given on that day; <<>> is the map with no entry, which the
\* app gives a new teacher (part_003:885).
TeacherRecords(subjectSets, levelSets) ==
    [subjects : subjectSets, class_levels : levelSets, availability : {<<>>}]

\* The appState a generation starts from: no teachers at all, or t1 and t2.
TeacherConfigs ==
    {<<>>} \cup
    {[t \in {"t1", "t2"} |-> IF t = "t1" THEN a ELSE b] :
        a \in TeacherRecords({{"s1"}, {"s1", "s2"}}, (SUBSET Levels) \ {{}}),
        b \in TeacherRecords({{}, {"s2"}, {"s1", "s2"}}, (SUBSET Levels) \ {{}})}

Init ==
    /\ scenario = "school"
    /\ appPeriods = periods
    /\ app = newApp
    /\ teachers \in TeacherConfigs
    /\ targets \in [SubjectIds -> 0..MaxTarget]
    /\ prefer_morning \in BOOLEAN
    /\ isGenerating = FALSE
    /\ generationCancelled = FALSE
    /\ pc = "idle"
    /\ timetable = <<>>
    /\ asg = NoLocals
    /\ rsv = NoResolve
    /\ outcome = "none"
    /\ calls = 0
    /\ op = NoOp

Next == Generate \/ GenerateRejected \/ Resume \/ CancelGeneration

Spec == Init /\ [][Next]_vars

\* The availability maps of the one-class school's teacher: none, or Monday
\* in period p1 only.
WeekAvailabilities == {<<>>, [d \in {"Monday"} |-> {"p1"}]}

\* The generator constructed for the one-class school: class c1 of level S.1,
\* subject s1 with target_lessons_per_week = 10, and teacher t1, who teaches
\* s1 at level S.1.
InitWeek ==
    /\ scenario = "week"
    /\ appPeriods = periods
    /\ app = newApp
    /\ teachers \in {[t \in {"t1"} |-> [subjects     |-> {"s1"},
                                         class_levels |-> {"S.1"},
                                         availability |-> av]] :
                         av \in WeekAvailabilities}
    /\ targets = [s \in SubjectIds |-> 10]
    /\ prefer_morning \in BOOLEAN
    /\ isGenerating = FALSE
    /\ generationCancelled = FALSE
    /\ pc = "idle"
    /\ timetable = <<>>
    /\ asg = NoLocals
    /\ rsv = NoResolve
    /\ outcome = "none"
    /\ calls = 0
    /\ op = NoOp

SpecWeek == InitWeek /\ [][Next]_vars

\* The generator constructed for a school whose two classes have the levels
\* S.1 and P.7, with teachers t1 and t2 for any levels.
InitLevels ==
    /\ scenario = "levels"
    /\ appPeriods = periods
    /\ app = newApp
    /\ teachers \in {[t \in {"t1", "t2"} |-> IF t = "t1" THEN a ELSE b] :
                       a \in TeacherRecords({{"s1"}}, (SUBSET Levels) \ {{}}),
                       b \in TeacherRecords({{"s1", "s2"}}, (SUBSET Levels) \ {{}})}
    /\ targets \in [SubjectIds -> 1..MaxTarget]
    /\ prefer_morning = FALSE
    /\ isGenerating = FALSE
    /\ generationCancelled = FALSE
    /\ pc = "idle"
    /\ timetable = <<>>
    /\ asg = NoLocals
    /\ rsv = NoResolve
    /\ outcome = "none"
    /\ calls = 0
    /\ op = NoOp

SpecLevels == InitLevels /\ [][Next]_vars

(***************************************************************************)
(* The grid-mutating methods called directly on a timetable.               *)
(***************************************************************************)
\* The addresses moveLesson takes: [day, period_id, class_id].
Addresses == [day : DaySet, period_id : PeriodIds, class_id : ClassIds]

LessonAddresses == {a \in Addresses : a.period_id \in LessonPeriodIds}

\* What a lesson slot of class c can hold in a drawn grid: a subject, a
\* teacher who covers the subject and the level of c, and a room.
LessonsFor(c) ==
    {l \in [subject_id : SubjectIds, teacher_id : TeacherIds,
            room_id : RoomIds] :
        /\ l.subject_id \in teachers[l.teacher_id].subjects
        /\ ClassOf(c).level \in teachers[l.teacher_id].class_levels}

\* The initialized grid with the lessons f (address -> lesson) written in.
gridWith(f) ==
    [d \in DaySet |-> [p \in PeriodIds |-> [c \in ClassIds |->
        LET a == [day |-> d, period_id |-> p, class_id |-> c]
            empty == placeFixedElements(initializeTimetable)[d][p][c]
        IN  IF a \in DOMAIN f
            THEN [empty EXCEPT !.subject_id = f[a].subject_id,
                               !.teacher_id = f[a].teacher_id,
                               !.room_id = f[a].room_id]
            ELSE empty]]]

\* assignLessons called and awaited on a timetable with no cancelGeneration()
\* in between.
RECURSIVE assignLessons(_, _, _)
assignLessons(tt, a, entering) ==
    LET next(r) == IF r.suspended THEN assignLessons(r.tt, r.a, FALSE) ELSE r
    IN  next(assignLessonsRun(tt, a, entering, FALSE))

\* The appState of the direct calls: t2 teaches everything everywhere, t1
\* teaches s1 in S.1 and perhaps in S.2.
GridTeacherConfigs ==
    {[t \in {"t1", "t2"} |->
        IF t = "t1" THEN [subjects |-> {"s1"}, class_levels |-> l,
                          availability |-> <<>>]
                    ELSE [subjects |-> {"s1", "s2"}, class_levels |-> Levels,
                          availability |-> <<>>]] :
        l \in {{"S.1"}, Levels}}

\* Drawn grids: at most MaxInitLessons lessons, each any admissible lesson.
SparseGrids ==
    {gridWith(f) :
        f \in UNION {{g \in [S -> UNION {LessonsFor(c) : c \in ClassIds}] :
                        \A a \in S : g[a] \in LessonsFor(a.class_id)} :
                    S \in {T \in SUBSET LessonAddresses :
                              Cardinality(T) <= MaxInitLessons}}}

\* Drawn grids: t2 teaching s1 in any set of lesson slots, up to the whole
\* week of both classes (the double bookings the resolver is there for).
OneTeacherGrids ==
    {gridWith([a \in S |-> [subject_id |-> "s1", teacher_id |-> "t2",
                            room_id |-> "r1"]]) :
        S \in SUBSET LessonAddresses}

InitGrid ==
    /\ scenario = "school"
    /\ appPeriods = periods
    /\ app = newApp
    /\ teachers \in GridTeacherConfigs
    /\ targets = [s \in SubjectIds |-> IF s = "s1" THEN MaxTarget ELSE 1]
    /\ prefer_morning = FALSE
    /\ isGenerating = FALSE
    /\ generationCancelled = FALSE
    /\ pc = "idle"
    /\ timetable \in SparseGrids \cup OneTeacherGrids
    /\ asg = NoLocals
    /\ rsv = NoResolve
    /\ outcome = "none"
    /\ calls = 0
    /\ op = NoOp

GridFrame ==
    UNCHANGED <<app, appPeriods, scenario, teachers, targets, prefer_morning, isGenerating, generationCancelled,
                pc, asg, rsv, outcome, calls>>

\* moveLesson(timetable, from, to)
MoveLessonCall(from, to) ==
    /\ op.name = "none"
    /\ \E r \in {moveLesson(timetable, from, to)} :
          /\ timetable' = r.tt
          /\ op' = [name |-> "moveLesson", from |-> from, to |-> to,
                    success |-> r.success]
    /\ GridFrame

\* moveLesson(timetable, from, to) and, when it succeeded, moveLesson(timetable,
\* to, from) right after it: two synchronous calls with nothing in between.
\* success is the first call's result, back the second's.
MoveThereAndBackCall(from, to) ==
    /\ op.name = "none"
    /\ \E there \in {moveLesson(timetable, from, to)} :
          /\ there.success
          /\ \E r \in {moveLesson(there.tt, to, from)} :
                /\ timetable' = r.tt
                /\ op' = [name |-> "moveThereAndBack", from |-> from, to |-> to,
                          success |-> there.success, back |-> r.success]
    /\ GridFrame

\* await resolveConflicts(timetable)
ResolveConflictsCall ==
    /\ op.name = "none"
    /\ \E r \in {resolveConflicts(timetable, 0, 0)} :
          /\ timetable' = r.tt
          /\ op' = [name |-> "resolveConflicts", from |-> r.iteration,
                    to |-> r.conflictsResolved,
                    success |-> r.conflictsResolved > 0]
    /\ GridFrame

\* await transferLessons(fromTeacher, toTeacher, timetable)
TransferLessonsCall(fromTeacher, toTeacher) ==
    /\ op.name = "none"
    /\ \E r \in {transferLessons(fromTeacher, toTeacher, timetable)} :
          /\ timetable' = r.tt
          /\ op' = [name |-> "transferLessons", from |-> fromTeacher,
                    to |-> toTeacher, success |-> r.result]
    /\ GridFrame

\* await balanceTeacherWorkload(timetable): success is whether the call
\* returned; a call that throws has written nothing.
BalanceTeacherWorkloadCall ==
    /\ op.name = "none"
    /\ timetable' = timetable
    /\ op' = [name |-> "balanceTeacherWorkload", from |-> <<>>, to |-> <<>>,
              success |-> balanceTeacherWorkload(generationCancelled) = "returned"]
    /\ GridFrame

\* await addMissingLessons(classId, subjectId, missingCount, timetable)
AddMissingLessonsCall(classId, subjectId, missingCount) ==
    /\ op.name = "none"
    /\ timetable' = addMissingLessons(classId, subjectId, missingCount, timetable)
    /\ op' = [name |-> "addMissingLessons", from |-> classId, to |-> subjectId,
              success |-> TRUE]
    /\ GridFrame

\* await optimizeSubjectDistribution(timetable)
OptimizeSubjectDistributionCall ==
    /\ op.name = "none"
    /\ timetable' = optimizeSubjectDistribution(timetable)
    /\ op' = [name |-> "optimizeSubjectDistribution", from |-> <<>>, to |-> <<>>,
              success |-> TRUE]
    /\ GridFrame

\* await assignLessons(timetable, createLessonSlots()) on the grid as
\* generate passes it: initialized, no lesson in it yet.
AssignLessonsCall ==
    /\ op.name = "none"
    /\ timetable = placeFixedElements(initializeTimetable)
    /\ \E r \in {assignLessons(timetable, assignLessonsLocals(createLessonSlots),
                               TRUE)} :
          /\ timetable' = r.tt
          /\ op' = [name |-> "assignLessons", from |-> <<>>, to |-> <<>>,
                    success |-> r.a.finalUnassigned = 0]
    /\ GridFrame

NextGrid ==
    \/ \E from, to \in Addresses : MoveLessonCall(from, to)
    \/ \E from, to \in Addresses : MoveThereAndBackCall(from, to)
    \/ ResolveConflictsCall
    \/ \E f, t \in TeacherIds : TransferLessonsCall(f, t)
    \/ BalanceTeacherWorkloadCall
    \/ \E c \in ClassIds, s \in SubjectIds, m \in 1..MaxTarget : AddMissingLessonsCall(c, s, m)
    \/ OptimizeSubjectDistributionCall
    \/ AssignLessonsCall

SpecGrid == InitGrid /\ [][NextGrid]_vars

(***************************************************************************)
(* findBestAssignment and calculateAssignmentScore called on their own.    *)
(***************************************************************************)
\* The values drawn for a teacher's load: none, one, and the lessons of a
\* teacher who fills a week of eight lesson periods a day.
LoadValues == {0, 1, MaxLoad}

\* Drawn grids: empty, or one admissible lesson on Monday.
ScoreGrids ==
    {gridWith(f) :
        f \in UNION {{g \in [S -> UNION {LessonsFor(c) : c \in ClassIds}] :
                        \A a \in S : g[a] \in LessonsFor(a.class_id)} :
                    S \in {T \in SUBSET {a \in LessonAddresses : a.day = "Monday"} :
                              Cardinality(T) <= 1}}}

\* Drawn counters of assignLessons (part_001:187-189): any load for each
\* teacher, a class load on Monday, and for each subject no lesson or
\* MaxTarget lessons in both classes.
ScoreCounters ==
    {[assignLessonsLocals(<<>>) EXCEPT
         !.teacherLoad = tl,
         !.classLoad = [c \in ClassIds |->
                          [d \in DaySet |-> IF d = "Monday" THEN cl ELSE 0]],
         !.subjectFrequency = [c \in ClassIds |-> sf]] :
        tl \in [TeacherIds -> LoadValues], cl \in {0, 2},
        sf \in [SubjectIds -> {0, MaxTarget}]}

InitScore ==
    /\ scenario = "school"
    /\ appPeriods = periods
    /\ app = newApp
    /\ teachers \in GridTeacherConfigs
    /\ targets = [s \in SubjectIds |-> IF s = "s1" THEN MaxTarget ELSE 1]
    /\ prefer_morning \in BOOLEAN
    /\ isGenerating = FALSE
    /\ generationCancelled = FALSE
    /\ pc = "idle"
    /\ timetable \in ScoreGrids
    /\ asg \in ScoreCounters
    /\ rsv = NoResolve
    /\ outcome = "none"
    /\ calls = 0
    /\ op = NoOp

\* findBestAssignment(slot, timetable, teacherLoad, classLoad, subjectFrequency)
FindBestAssignmentCall(slot) ==
    /\ op.name = "none"
    /\ \E best \in {findBestAssignment(slot, timetable, asg.teacherLoad,
                                       asg.classLoad, asg.subjectFrequency)} :
          op' = [name |-> "findBestAssignment", from |-> slot, to |-> best,
                 success |-> best # <<>>]
    /\ UNCHANGED <<timetable, asg>>
    /\ UNCHANGED <<app, appPeriods, scenario, teachers, targets, prefer_morning, isGenerating,
                   generationCancelled, pc, rsv, outcome, calls>>

\* The call findBestAssignment makes for a teacher and a subject of its slot
\* (part_001:337-339): calculateAssignmentScore(teacher, subject, teacherLoad,
\* classLoad, class_id, day).  The result is twice the score.
CalculateAssignmentScoreCall(slot, teacherId, sid) ==
    /\ op.name = "none"
    /\ op' = [name |-> "calculateAssignmentScore",
              from |-> [slot |-> slot, teacher_id |-> teacherId, subject_id |-> sid],
              to |-> calculateAssignmentScore2(teacherId, sid, asg.teacherLoad,
                                               asg.classLoad, slot[3], slot[1]),
              success |-> TRUE]
    /\ UNCHANGED <<timetable, asg>>
    /\ UNCHANGED <<app, appPeriods, scenario, teachers, targets, prefer_morning, isGenerating,
                   generationCancelled, pc, rsv, outcome, calls>>

NextScore ==
    \/ \E k \in DOMAIN createLessonSlots : FindBestAssignmentCall(createLessonSlots[k])
    \/ \E k \in DOMAIN createLessonSlots, t \in TeacherIds, sid \in SubjectIds :
          CalculateAssignmentScoreCall(createLessonSlots[k], t, sid)

SpecScore == InitScore /\ [][NextScore]_vars

(***************************************************************************)
(* ConstraintManager (src/unnamed/part_000).                               *)
(***************************************************************************)
\* timeToMinutes (part_000:136-139): "HH:MM" split at the colon.
timeToMinutes(timeStr) == timeStr[1] * 60 + timeStr[2]

\* A variant of doPeriodsOverlap that also takes two periods that touch as
\* overlapping.
doPeriodsOverlapClosed(period1, period2) ==
    IF period1.type # "lesson" \/ period2.type # "lesson" THEN FALSE
    ELSE /\ timeToMinutes(period1.start_time) <= timeToMinutes(period2.end_time)
         /\ timeToMinutes(period2.start_time) <= timeToMinutes(period1.end_time)

\* doPeriodsOverlap (part_000:125-134)
doPeriodsOverlap(period1, period2) ==
    IF period1.type # "lesson" \/ period2.type # "lesson" THEN FALSE
    ELSE /\ timeToMinutes(period1.start_time) < timeToMinutes(period2.end_time)
         /\ timeToMinutes(period2.start_time) < timeToMinutes(period1.end_time)

\* validatePeriodConstraints (part_000:109-123): one error per pass of the
\* inner loop that finds an overlap, as the index pair <<i, j>> of the two
\* periods the message names, in the order of the two loops.
validatePeriodConstraints(ps) ==
    LET n == Len(ps)
        all == [k \in 1..(n * n) |-> <<((k - 1) \div n) + 1, ((k - 1) % n) + 1>>]
        Pushed(ij) == ij[1] < ij[2] /\ doPeriodsOverlap(ps[ij[1]], ps[ij[2]])
    IN  SelectSeq(all, Pushed)

\* The clock times the drawn periods start and end at.
PeriodTimes == {<<8, 0>>, <<8, 40>>, <<9, 0>>, <<9, 20>>}

\* Drawn appState.periods: up to MaxPeriods periods, each a lesson or a break
\* that starts before it ends.
PeriodLists ==
    LET kinds == {k \in [type : {"lesson", "break"},
                         start_time : PeriodTimes, end_time : PeriodTimes] :
                     timeToMinutes(k.start_time) < timeToMinutes(k.end_time)}
        named(f) == [i \in DOMAIN f |->
                        [id         |-> <<"period", i>>,
                         type       |-> f[i].type,
                         start_time |-> f[i].start_time,
                         end_time   |-> f[i].end_time]]
    IN  UNION {{named(f) : f \in [1..n -> kinds]} : n \in 2..MaxPeriods}

\* validateSubjectConstraints (part_000:58-85): the errors pushed for the
\* subjects from the i-th on, as [error, subject] records.
RECURSIVE validateSubjectsFrom(_)
validateSubjectsFrom(i) ==
    LET IsLesson(p) == p.type = "lesson"
        lessonPeriodsPerDay == Len(SelectSeq(appPeriods, IsLesson))
        totalLessonPeriodsPerWeek == lessonPeriodsPerDay * 5
        sid == subjects[i].id
        Teaches(t) == sid \in teachers[t].subjects
        tooMany == IF targets[sid] > totalLessonPeriodsPerWeek
                   THEN <<[error |-> "requires more lessons than available periods",
                           subject |-> sid]>>
                   ELSE <<>>
        noTeacher == IF Len(SelectSeq(teacherIds, Teaches)) = 0
                     THEN <<[error |-> "No teachers available", subject |-> sid]>>
                     ELSE <<>>
    IN  IF i > Len(subjects) THEN <<>>
        ELSE tooMany \o noTeacher \o validateSubjectsFrom(i + 1)

validateSubjectConstraints == validateSubjectsFrom(1)

\* A variant of isTeacherDoubleBooked that does not skip the slot of the
\* proposed change's own class.
isTeacherDoubleBookedAnyClass(proposedChange, tt) ==
    IF proposedChange.teacher_id = NULL THEN FALSE
    ELSE \E cid \in DOMAIN tt[proposedChange.day][proposedChange.period_id] :
            tt[proposedChange.day][proposedChange.period_id][cid].teacher_id
                = proposedChange.teacher_id

\* isTeacherDoubleBooked (part_000:163-175)
isTeacherDoubleBooked(proposedChange, tt) ==
    IF proposedChange.teacher_id = NULL THEN FALSE
    ELSE \E cid \in DOMAIN tt[proposedChange.day][proposedChange.period_id] :
            /\ cid # proposedChange.class_id
            /\ tt[proposedChange.day][proposedChange.period_id][cid].teacher_id
                 = proposedChange.teacher_id

\* isRoomDoubleBooked (part_000:177-180)
isRoomDoubleBooked(proposedChange, tt) == FALSE

\* isBreakPeriod (part_000:182-185): "period && period.type !== 'lesson'" for
\* the first period of appState.periods with the proposed id.
isBreakPeriod(proposedChange) ==
    LET Same(p) == p.id = proposedChange.period_id
        found == SelectSeq(appPeriods, Same)
    IN  found # <<>> /\ found[1].type # "lesson"

\* checkHardConstraints (part_000:142-161): the violations, in order.
checkHardConstraints(proposedChange, tt) ==
    (IF isTeacherDoubleBooked(proposedChange, tt)
     THEN <<"Teacher is already assigned in this period">> ELSE <<>>)
    \o (IF isRoomDoubleBooked(proposedChange, tt)
        THEN <<"Room is already occupied in this period">> ELSE <<>>)
    \o (IF isBreakPeriod(proposedChange)
        THEN <<"Cannot schedule lessons during break/lunch periods">> ELSE <<>>)

\* What a method of the ConstraintManager hands back: a value, or the
\* TypeError it throws.
Returned(v) == [throws |-> FALSE, value |-> v]
Thrown == [throws |-> TRUE, value |-> "TypeError"]

\* countSubjectLessons (part_000:224-237) starts with
\* this.appState.days.forEach.  appState has no days field: TimetableApp
\* builds it from periods, subjects, classes, teachers, timetable,
\* constraints and currentView (part_003:9-17) and merges what loadAllData
\* returns, which has no days either (part_003:81).  forEach of undefined
\* throws a TypeError.
countSubjectLessons(classId, subjectId, tt) == Thrown

\* calculateSubjectFrequencyPenalty (part_000:208-222): the first class and
\* subject reach countSubjectLessons.
calculateSubjectFrequencyPenalty(tt) ==
    IF Len(classes) = 0 \/ Len(subjects) = 0
    THEN Returned(0)
    ELSE countSubjectLessons(classes[1].id, subjects[1].id, tt)

\* calculateTeacherPreferencePenalty (part_000:239-260): the teachers of the
\* model have no preferences field, so nothing is added.
calculateTeacherPreferencePenalty(tt) == Returned(0)

\* calculateWorkloadImbalancePenalty (part_000:296-306): calculateTeacherLoads
\* (part_000:308-329) reaches this.appState.days.forEach with any teachers.
calculateWorkloadImbalancePenalty(tt) == Thrown

\* calculateSoftConstraintScores (part_000:188-206)
calculateSoftConstraintScores(tt) ==
    LET frequency  == calculateSubjectFrequencyPenalty(tt)
        preference == calculateTeacherPreferencePenalty(tt)
        imbalance  == calculateWorkloadImbalancePenalty(tt)
        bonus(totalScore) == IF totalScore > 950 THEN totalScore + 50 ELSE totalScore
        max0(x) == IF x > 0 THEN x ELSE 0
    IN  IF frequency.throws THEN Thrown
        ELSE IF preference.throws THEN Thrown
        ELSE IF imbalance.throws THEN Thrown
        ELSE Returned(max0(bonus(1000 - frequency.value * 10
                                      - preference.value * 5
                                      - imbalance.value * 3)))

\* The proposed changes of the direct calls: a teacher, or none, with subject
\* s1 for any slot of the grid.
ProposedChanges ==
    [day : DaySet, period_id : PeriodIds, class_id : ClassIds,
     teacher_id : TeacherIds \cup {NULL}, subject_id : {"s1"}]

\* The appState the ConstraintManager is constructed with: drawn periods with
\* no other data; the one-class school of the seven-day generator with a
\* drawn target_lessons_per_week; or the two-class school with a drawn
\* timetable.
InitConstraints ==
    /\ \/ /\ scenario = "school"
          /\ appPeriods \in PeriodLists
          /\ app = newApp
          /\ teachers = <<>>
          /\ targets = [s \in SubjectIds |-> 0]
          /\ timetable = <<>>
       \/ /\ scenario = "week"
          /\ appPeriods = periods
          /\ app = newApp
          /\ teachers = [t \in {"t1"} |->
                            [subjects |-> {"s1"}, class_levels |-> {"S.1"},
                             availability |-> <<>>]]
          /\ targets \in [SubjectIds -> 0..MaxWeekTarget]
          /\ timetable = <<>>
       \/ /\ scenario = "school"
          /\ appPeriods = periods
          /\ app = newApp
          /\ teachers \in GridTeacherConfigs
          /\ targets = [s \in SubjectIds |-> IF s = "s1" THEN MaxTarget ELSE 1]
          /\ timetable \in SparseGrids \cup OneTeacherGrids
    /\ prefer_morning = FALSE
    /\ isGenerating = FALSE
    /\ generationCancelled = FALSE
    /\ pc = "idle"
    /\ asg = NoLocals
    /\ rsv = NoResolve
    /\ outcome = "none"
    /\ calls = 0
    /\ op = NoOp

\* validatePeriodConstraints()
ValidatePeriodConstraintsCall ==
    /\ op.name = "none"
    /\ op' = [name |-> "validatePeriodConstraints", from |-> <<>>,
              to |-> validatePeriodConstraints(appPeriods),
              success |-> validatePeriodConstraints(appPeriods) = <<>>]
    /\ UNCHANGED timetable
    /\ GridFrame

\* validateSubjectConstraints()
ValidateSubjectConstraintsCall ==
    /\ op.name = "none"
    /\ op' = [name |-> "validateSubjectConstraints", from |-> <<>>,
              to |-> validateSubjectConstraints,
              success |-> validateSubjectConstraints = <<>>]
    /\ UNCHANGED timetable
    /\ GridFrame

\* calculateSoftConstraintScores(timetable)
CalculateSoftConstraintScoresCall ==
    /\ op.name = "none"
    /\ timetable # <<>>
    /\ op' = [name |-> "calculateSoftConstraintScores", from |-> <<>>,
              to |-> calculateSoftConstraintScores(timetable),
              success |-> ~calculateSoftConstraintScores(timetable).throws]
    /\ UNCHANGED timetable
    /\ GridFrame

\* checkHardConstraints(proposedChange, timetable)
CheckHardConstraintsCall(proposedChange) ==
    /\ op.name = "none"
    /\ timetable # <<>>
    /\ op' = [name |-> "checkHardConstraints", from |-> proposedChange,
              to |-> checkHardConstraints(proposedChange, timetable),
              success |-> checkHardConstraints(proposedChange, timetable) = <<>>]
    /\ UNCHANGED timetable
    /\ GridFrame

NextConstraints ==
    \/ ValidatePeriodConstraintsCall
    \/ ValidateSubjectConstraintsCall
    \/ CalculateSoftConstraintScoresCall
    \/ \E proposedChange \in ProposedChanges : CheckHardConstraintsCall(proposedChange)

SpecConstraints == InitConstraints /\ [][NextConstraints]_vars

(***************************************************************************)
(* TimetableApp (src/unnamed/part_003): the state object and the history.  *)
(***************************************************************************)
\* The period lists of the model: the ids p1 and p2, none twice.
AppPeriodLists == {<<>>, <<"p1">>, <<"p2">>, <<"p1", "p2">>, <<"p2", "p1">>}

\* What loadAllData, importFromJSON and restoreBackup can deliver.
AppData == [periods : AppPeriodLists]

\* A write into the object this.appState refers to (this.appState.periods
\* .push(..), this.appState.periods = ..): whoever holds that object reads it.
writeState(a, data) ==
    [a EXCEPT !.appState = data,
              !.timetableGenerator = IF a.constructed /\ a.sameObject THEN data ELSE @,
              !.constraintManager  = IF a.constructed /\ a.sameObject THEN data ELSE @]

\* this.appState = <a new object> (part_003:81, 117, 127, 181, 267): the
\* objects held elsewhere stay what they were.
assignState(a, data) ==
    [a EXCEPT !.appState = data, !.sameObject = FALSE]

\* A variant of saveToHistory that never drops the oldest snapshot.
saveToHistoryUntrimmed(a) ==
    [a EXCEPT !.past = Append(a.past, a.appState), !.future = <<>>, !.saved = TRUE]

\* saveToHistory (part_003:105-112)
saveToHistory(a) ==
    LET pushed == Append(a.past, a.appState)
    IN  [a EXCEPT !.past = IF Len(pushed) > maxSize THEN Tail(pushed) ELSE pushed,
                  !.future = <<>>,
                  !.saved = TRUE]

\* saveData (part_003:89-103); success is what DataManager.saveAllData
\* returned.
saveData(a, success) == IF success THEN saveToHistory(a) ELSE a

\* undo (part_003:114-121)
undo(a) ==
    IF Len(a.past) > 1
    THEN assignState([a EXCEPT !.future = Append(@, a.past[Len(a.past)]),
                               !.past = SubSeq(@, 1, Len(a.past) - 1)],
                     a.past[Len(a.past) - 1])
    ELSE a

\* redo (part_003:123-131)
redo(a) ==
    IF Len(a.future) > 0
    THEN assignState([a EXCEPT !.future = SubSeq(@, 1, Len(a.future) - 1),
                               !.past = Append(@, a.future[Len(a.future)])],
                     a.future[Len(a.future)])
    ELSE a

\* A handler of the app has run: it is counted and named.
handled(a, name) == [a EXCEPT !.ops = app.ops + 1, !.last = name]

\* A handler starts: the app is initialized and no handler has saved yet.
entered == [app EXCEPT !.saved = FALSE]

\* init (part_003:54-76) with loadData (78-87): the loaded data become a new
\* state object, a snapshot is saved, and the generator and the constraint
\* manager are constructed with that object.
InitCall(data) ==
    /\ ~app.constructed
    /\ \E a \in {saveToHistory(assignState(app, data))} :
          app' = [a EXCEPT !.constructed = TRUE,
                           !.sameObject = TRUE,
                           !.timetableGenerator = a.appState,
                           !.constraintManager = a.appState,
                           !.last = "init"]
    /\ UNCHANGED <<appPeriods, scenario, teachers, targets, prefer_morning, isGenerating,
                   generationCancelled, pc, timetable, asg, rsv, outcome, calls, op>>

AppFrame ==
    UNCHANGED <<appPeriods, scenario, teachers, targets, prefer_morning, isGenerating,
                generationCancelled, pc, timetable, asg, rsv, outcome, calls, op>>

\* savePeriod (part_003:491-556) for a new period: pushed onto
\* this.appState.periods, then saveData.
SavePeriodCall(id, success) ==
    /\ app.constructed /\ app.ops < MaxAppOps
    /\ \A i \in DOMAIN app.appState.periods : app.appState.periods[i] # id
    /\ app' = handled(saveData(writeState(entered,
                                [periods |-> Append(app.appState.periods, id)]),
                              success),
                     "savePeriod")
    /\ AppFrame

\* deletePeriod (part_003:562-580): this.appState.periods becomes the list
\* without the period, then saveData.
DeletePeriodCall(id, success) ==
    /\ app.constructed /\ app.ops < MaxAppOps
    /\ \E i \in DOMAIN app.appState.periods : app.appState.periods[i] = id
    /\ \E rest \in {LET Other(x) == x # id
                     IN  SelectSeq(app.appState.periods, Other)} :
          app' = handled(saveData(writeState(entered, [periods |-> rest]), success),
                         "deletePeriod")
    /\ AppFrame

\* the undo button
UndoCall ==
    /\ app.constructed /\ app.ops < MaxAppOps
    /\ app' = handled(undo(entered), "undo")
    /\ AppFrame

\* the redo button
RedoCall ==
    /\ app.constructed /\ app.ops < MaxAppOps
    /\ app' = handled(redo(entered), "redo")
    /\ AppFrame

\* undo() and redo() right after it: two synchronous calls with nothing in
\* between.
UndoThenRedoCall ==
    /\ app.constructed /\ app.ops < MaxAppOps
    /\ app' = handled(redo(undo(entered)), "undoThenRedo")
    /\ AppFrame

\* importData (part_003:175-191) with data that pass validateImportedData
ImportDataCall(data, success) ==
    /\ app.constructed /\ app.ops < MaxAppOps
    /\ app' = handled(saveData(assignState(entered, data), success), "importData")
    /\ AppFrame

\* restoreBackup (part_003:263-273), confirmed, with an existing backup
RestoreBackupCall(data, success) ==
    /\ app.constructed /\ app.ops < MaxAppOps
    /\ app' = handled(saveData(assignState(entered, data), success), "restoreBackup")
    /\ AppFrame

\* The snapshots of an app that has been in use: a period p2 added to the
\* period p1 and deleted again, n saves in all.
usedPast(n) ==
    [i \in 1..n |-> [periods |-> IF i % 2 = 1 THEN <<"p1">> ELSE <<"p1", "p2">>]]

\* An initialized app after n saves and nothing else.
usedApp(n) ==
    [newApp EXCEPT !.appState = usedPast(n)[n],
                   !.constructed = TRUE,
                   !.timetableGenerator = usedPast(n)[n],
                   !.constraintManager = usedPast(n)[n],
                   !.sameObject = TRUE,
                   !.past = usedPast(n),
                   !.last = "savePeriod",
                   !.saved = TRUE]

\* The app just constructed, or in use with a history that is full or one
\* snapshot short of it.
InitApp ==
    /\ scenario = "school"
    /\ appPeriods = periods
    /\ app \in {newApp, usedApp(maxSize - 1), usedApp(maxSize)}
    /\ teachers = <<>>
    /\ targets = [s \in SubjectIds |-> 1]
    /\ prefer_morning = FALSE
    /\ isGenerating = FALSE
    /\ generationCancelled = FALSE
    /\ pc = "idle"
    /\ timetable = <<>>
    /\ asg = NoLocals
    /\ rsv = NoResolve
    /\ outcome = "none"
    /\ calls = 0
    /\ op = NoOp

NextApp ==
    \/ \E data \in AppData : InitCall(data)
    \/ \E id \in {"p1", "p2"}, success \in BOOLEAN : SavePeriodCall(id, success)
    \/ \E id \in {"p1", "p2"}, success \in BOOLEAN : DeletePeriodCall(id, success)
    \/ UndoCall
    \/ RedoCall
    \/ UndoThenRedoCall
    \/ \E data \in AppData, success \in BOOLEAN : ImportDataCall(data, success)
    \/ \E data \in AppData, success \in BOOLEAN : RestoreBackupCall(data, success)

SpecApp == InitApp /\ [][NextApp]_vars

(***************************************************************************)
(* Properties of the grid.                                                 *)
(***************************************************************************)
\* The slot of tt at address a = [day, period_id, class_id].
slotAt(tt, a) == tt[a.day][a.period_id][a.class_id]

\* Some teacher is in the slots of two classes at one (day, period) of tt.
doubleBooked(tt) ==
    \E d \in DaySet, p \in PeriodIds : \E c1, c2 \in ClassIds :
        /\ c1 # c2
        /\ tt[d][p][c1].teacher_id # NULL
        /\ tt[d][p][c1].teacher_id = tt[d][p][c2].teacher_id

\* A slot that holds a subject holds a teacher of that subject and of the
\* level of the slot's class.
eligibleSlot(s) ==
    s.subject_id # NULL =>
        /\ s.teacher_id \in TeacherIds
        /\ s.subject_id \in teachers[s.teacher_id].subjects
        /\ ClassOf(s.class_id).level \in teachers[s.teacher_id].class_levels

allEligible(tt) == \A a \in Addresses : eligibleSlot(slotAt(tt, a))

\* One slot at every (day, period, class), each carrying its own position.
wellFormed(tt) ==
    /\ DOMAIN tt = DaySet
    /\ \A d \in DaySet :
         /\ DOMAIN tt[d] = PeriodIds
         /\ \A p \in PeriodIds :
              /\ DOMAIN tt[d][p] = ClassIds
              /\ \A c \in ClassIds :
                   /\ tt[d][p][c].day = d
                   /\ tt[d][p][c].period_id = p
                   /\ tt[d][p][c].class_id = c

\* C1 (Spec): in every state generate reaches, from the freshly initialized
\* grid on, no teacher_id is in the slots of two different classes at the same
\* (day, period).
GenerateKeepsTeachersExclusive ==
    timetable # <<>> => ~doubleBooked(timetable)

\* C1's case: generate has run its passes as far as they go, both classes are
\* taught at one (day, period), and one teacher teaches both classes.
GenerateSharedTeacher ==
    /\ timetable # <<>>
    /\ outcome = "TypeError"
    /\ \E d \in DaySet, p \in LessonPeriodIds :
          \A c \in ClassIds : timetable[d][p][c].teacher_id # NULL
    /\ \E a, b \in LessonAddresses :
          /\ a.class_id # b.class_id
          /\ slotAt(timetable, a).teacher_id # NULL
          /\ slotAt(timetable, a).teacher_id = slotAt(timetable, b).teacher_id

\* C2 (SpecGrid): after resolveConflicts has completed on any grid, double
\* bookings included, no teacher_id is in more than one class's slot at any
\* (day, lesson period).
ResolveConflictsLeavesNoDoubleBooking ==
    op.name = "resolveConflicts" => ~doubleBooked(timetable)

\* C3 (SpecGrid): every pass of a generation, the load balancer's transfer and
\* the distribution optimizer included, leaves every slot that holds a subject
\* with a teacher who covers the subject and the level of the slot's class.
PassesKeepEligibility ==
    op.name \in {"assignLessons", "resolveConflicts", "transferLessons",
                 "addMissingLessons", "optimizeSubjectDistribution"}
        => allEligible(timetable)

\* C4 (SpecGrid): from initialization on and after every mutation by a pass or
\* by moveLesson, the grid holds exactly one slot for every (day, period,
\* class) and every slot's day, period_id and class_id are its position.
OneSlotPerTriple == wellFormed(timetable)

\* C4's case: the resolver has moved a slot to another position.
ResolverRelocatedSlot ==
    /\ op.name = "resolveConflicts"
    /\ op.to > 0

\* C5 (SpecGrid): every slot of a period that is not a lesson period has
\* is_break = TRUE and no subject and no teacher.
BreakSlotsHoldNoLesson ==
    \A a \in Addresses :
        PeriodOf(a.period_id).type # "lesson" =>
            /\ slotAt(timetable, a).is_break
            /\ slotAt(timetable, a).subject_id = NULL
            /\ slotAt(timetable, a).teacher_id = NULL

\* C5's case: moveLesson was asked to move a lesson onto a break slot.
MoveOntoBreakAsked ==
    /\ op.name = "moveLesson"
    /\ PeriodOf(op.to.period_id).type # "lesson"
    /\ slotAt(timetable, op.from).subject_id # NULL

\* C6 (SpecGrid): a slot with subject_id set has teacher_id set.
SubjectImpliesTeacher ==
    \A a \in Addresses :
        slotAt(timetable, a).subject_id # NULL => slotAt(timetable, a).teacher_id # NULL

\* C6's case: moveLesson has moved a lesson, or assignLessons has filled slots.
LessonMovedOrAssigned ==
    /\ op.name \in {"moveLesson", "assignLessons"}
    /\ op.success
    /\ IF op.name = "moveLesson"
       THEN slotAt(timetable, op.to).subject_id # NULL
       ELSE \E a \in LessonAddresses : slotAt(timetable, a).subject_id # NULL

\* C7 (SpecGrid): moveLesson is all-or-nothing.  A rejected move leaves the
\* grid as it was; a successful move gives the target the source's former
\* subject_id, teacher_id and room_id, nulls these three in the source, and
\* leaves every other slot and every other field as it was.
MoveLessonAllOrNothing ==
    [][op'.name = "moveLesson" =>
         IF ~op'.success
         THEN timetable' = timetable
         ELSE /\ DOMAIN timetable' = DOMAIN timetable
              /\ \A a \in Addresses :
                   timetable'[a.day][a.period_id][a.class_id] =
                      IF a = op'.from
                      THEN [slotAt(timetable, a) EXCEPT !.subject_id = NULL,
                                                        !.teacher_id = NULL,
                                                        !.room_id = NULL]
                      ELSE IF a = op'.to
                      THEN [slotAt(timetable, a) EXCEPT
                              !.subject_id = slotAt(timetable, op'.from).subject_id,
                              !.teacher_id = slotAt(timetable, op'.from).teacher_id,
                              !.room_id = slotAt(timetable, op'.from).room_id]
                      ELSE slotAt(timetable, a)]_vars

\* C7's case: a lesson with a room has been moved to another slot.
LessonWithRoomMoved ==
    /\ op.name = "moveLesson"
    /\ op.success
    /\ op.from # op.to
    /\ slotAt(timetable, op.to).room_id # NULL

\* C8 (SpecGrid): moveLesson is rejected exactly when the target is a break
\* slot, or the target holds a subject, or the source slot's teacher is in a
\* slot of a class other than the source class at the target (day, period);
\* otherwise it succeeds.
MoveLessonRejectedExactlyWhen ==
    [][op'.name = "moveLesson" =>
         (~op'.success <=>
             \/ slotAt(timetable, op'.to).is_break
             \/ slotAt(timetable, op'.to).subject_id # NULL
             \/ /\ slotAt(timetable, op'.from).teacher_id # NULL
                /\ \E c \in ClassIds \ {op'.from.class_id} :
                      timetable[op'.to.day][op'.to.period_id][c].teacher_id
                          = slotAt(timetable, op'.from).teacher_id)]_vars

\* C9 (SpecGrid): on a grid with no teacher double-booked, moveLesson with any
\* from and to, a target in another class included, leaves no teacher in two
\* classes at the same (day, period).
MoveLessonKeepsTeachersExclusive ==
    [][(op'.name = "moveLesson" /\ ~doubleBooked(timetable))
           => ~doubleBooked(timetable')]_vars

\* C10 (SpecGrid): on a grid whose assigned slots are all eligible, a
\* successful moveLesson leaves the target slot eligible: a move to a class
\* whose level the teacher does not cover is rejected.
MoveLessonKeepsEligibility ==
    [][(op'.name = "moveLesson" /\ op'.success /\ allEligible(timetable))
           => eligibleSlot(timetable'[op'.to.day][op'.to.period_id][op'.to.class_id])]_vars

\* C11 (SpecGrid): if moveLesson(g, A, B) succeeds, a moveLesson(g, B, A) right
\* after it succeeds too, and subject_id, teacher_id and room_id of A and of B
\* are what they were before the first move.
MoveBackRestores ==
    [][op'.name = "moveThereAndBack" =>
         /\ op'.back
         /\ \A a \in {op'.from, op'.to} :
              /\ timetable'[a.day][a.period_id][a.class_id].subject_id
                     = slotAt(timetable, a).subject_id
              /\ timetable'[a.day][a.period_id][a.class_id].teacher_id
                     = slotAt(timetable, a).teacher_id
              /\ timetable'[a.day][a.period_id][a.class_id].room_id
                     = slotAt(timetable, a).room_id]_vars

\* C19 (SpecWeek): with one class, two lesson periods a day, one subject with
\* target_lessons_per_week = 10 and one teacher eligible for it, a generation
\* that is not cancelled assigns every lesson slot of the week to that teacher
\* and reports zero unassigned slots.
GenerationFillsTheWeek ==
    (timetable # <<>> /\ pc = "idle" /\ ~generationCancelled) =>
        /\ \A a \in LessonAddresses : slotAt(timetable, a).teacher_id = "t1"
        /\ asg.finalUnassigned = 0

\* The number of lesson slots of tt that hold a lesson.
assignedCount(tt) ==
    IF tt = <<>> THEN 0
    ELSE Cardinality({a \in LessonAddresses : slotAt(tt, a).subject_id # NULL})

\* C12 (Spec): while a generate call is in progress, suspended in a delay
\* included, another generate call is rejected, creates and mutates no grid,
\* and leaves isGenerating and generationCancelled of the running call alone.
RunningGenerateRejectsOthers ==
    [][(isGenerating /\ calls' # calls) =>
          /\ op'.name = "generate"
          /\ ~op'.success
          /\ UNCHANGED <<timetable, asg, rsv, pc, outcome, isGenerating,
                         generationCancelled>>]_vars

\* C12's case: a generate call was rejected while the running call, already
\* cancelled, is suspended in a delay with lessons in its grid.
RejectedWhileCancelledRuns ==
    /\ op.name = "generate"
    /\ ~op.success
    /\ isGenerating
    /\ generationCancelled
    /\ pc = "delay2"
    /\ assignedCount(timetable) > 0

\* The timetable assignLessons ends with when it is resumed with the
\* cancellation flag set and the flag stays set (part_001:186-236).
RECURSIVE assignLessonsCancelled(_, _)
assignLessonsCancelled(tt, a) ==
    LET next(r) == IF r.suspended THEN assignLessonsCancelled(r.tt, r.a) ELSE r.tt
    IN  next(assignLessonsRun(tt, a, FALSE, TRUE))

\* C13 (Spec): once cancelGeneration has been called during the assignment
\* phase the engine assigns no further slot: the grid generate ends with has at
\* most one lesson (the slot being processed) more than the grid at any moment
\* after the cancellation.
CancelStopsAssignment ==
    (generationCancelled /\ pc = "delay2") =>
        assignedCount(assignLessonsCancelled(timetable, asg))
            <= assignedCount(timetable) + 1

\* C14 (Spec): if cancelGeneration is called at any point while generate is
\* running, generate ends with the cancellation error and returns no grid.
CancelledGenerateEndsCancelled ==
    [][(isGenerating /\ generationCancelled /\ ~isGenerating')
          => outcome' = "cancelled"]_vars

\* C14's case: a generation that had assigned lessons ended as cancelled.
CancelledAfterAssigning ==
    /\ pc = "idle"
    /\ outcome = "cancelled"
    /\ assignedCount(timetable) > 0

\* C15 (Spec): with periods, subjects, classes and teachers all non-empty and
\* no cancellation, generate completes by returning the grid and never ends
\* with an error.
ValidDataGenerateReturnsGrid ==
    (validateData /\ pc = "idle" /\ outcome # "none" /\ ~generationCancelled)
        => outcome = "returned"

remainingWork(a) ==
    (4 - a.attempt) * (Len(createLessonSlots) + 1)
        + (Len(a.sortedSlots) + 1 - a.idx)

\* C17 (Spec): assignLessons terminates when every delay completes.  While it
\* is suspended it is in one of at most 5 passes; each resumption either ends
\* it or leaves strictly less remaining work, which is never negative; a
\* further pass starts only when the pass before left slots unassigned and
\* no cancellation is requested.
AssignLessonsTerminates ==
    [][(pc = "delay2" /\ <<asg, pc>>' # <<asg, pc>>) =>
          /\ asg.attempt < 5
          /\ remainingWork(asg) >= 0
          /\ asg'.attempt <= 5
          /\ pc' = "delay2" =>
                /\ remainingWork(asg') < remainingWork(asg)
                /\ asg'.attempt > asg.attempt =>
                      /\ ~generationCancelled
                      /\ asg'.attempt = asg.attempt + 1
                      /\ asg'.lessonSlots # <<>>]_vars

\* C17's case: assignLessons has ended after its fifth pass with slots left
\* unassigned.
FivePassesMade ==
    /\ pc = "idle"
    /\ asg.attempt = 5
    /\ asg.finalUnassigned > 0

\* C18: resolveConflicts always ends, also on a grid whose conflicts cannot be
\* repaired: it returns after at most maxIterations iterations, every
\* iteration before the last one made at least one repair, and unless the
\* iterations ran out the last one found no conflict or repaired none.
ResolveConflictsTerminates ==
    op.name = "resolveConflicts" =>
        /\ op.from <= maxIterations
        /\ op.from <= op.to
        /\ op.from < maxIterations =>
              \/ findAllConflicts(timetable) = <<>>
              \/ resolveEach(findAllConflicts(timetable), timetable, 0)
                    .resolvedThisIteration = 0

\* The resolver has returned from a grid it could not repair.
ResolverGaveUp ==
    /\ op.name = "resolveConflicts"
    /\ findAllConflicts(timetable) # <<>>

\* C20: when resolveConflicts returns with k > 0 double bookings left in the
\* grid, its result is the number k of those unresolved conflicts.
ResolverReportsUnresolved ==
    (op.name = "resolveConflicts" /\ findAllConflicts(timetable) # <<>>) =>
        op.to = Len(findAllConflicts(timetable))

\* C21: validatePeriodConstraints reports the pair of periods i < j exactly
\* when both are lesson periods and, in minutes since midnight, each starts
\* before the other ends; it reports such a pair once, and never two periods
\* of which one ends when the other starts.
OverlapsReportedExactly ==
    op.name = "validatePeriodConstraints" =>
        LET minutes(t) == 60 * t[1] + t[2]
            P == appPeriods
            overlap(i, j) ==
                /\ P[i].type = "lesson" /\ P[j].type = "lesson"
                /\ minutes(P[i].start_time) < minutes(P[j].end_time)
                /\ minutes(P[j].start_time) < minutes(P[i].end_time)
            touch(i, j) == \/ P[i].end_time = P[j].start_time
                           \/ P[j].end_time = P[i].start_time
            reported(i, j) == Cardinality({k \in DOMAIN op.to : op.to[k] = <<i, j>>})
        IN  /\ \A k \in DOMAIN op.to : op.to[k][1] < op.to[k][2]
            /\ \A i, j \in DOMAIN P :
                  i < j => /\ reported(i, j) = (IF overlap(i, j) THEN 1 ELSE 0)
                           /\ touch(i, j) => reported(i, j) = 0

\* Three lesson periods were validated of which the first two overlap and
\* the last two touch.
OverlapAndTouchValidated ==
    /\ op.name = "validatePeriodConstraints"
    /\ Len(appPeriods) = 3
    /\ op.to = << <<1, 2>> >>
    /\ appPeriods[1].type = "lesson" /\ appPeriods[2].type = "lesson"
    /\ appPeriods[3].type = "lesson"
    /\ appPeriods[2].end_time = appPeriods[3].start_time

\* C22: with the week the generator builds its grid for, the validator flags a
\* subject exactly when its target_lessons_per_week exceeds the number of
\* lesson slots createLessonSlots makes for one class.
SubjectFlaggedBeyondWeekCapacity ==
    (op.name = "validateSubjectConstraints" /\ scenario = "week") =>
        \A sid \in SubjectIds : \A c \in ClassIds :
            LET flagged == \E k \in DOMAIN op.to :
                              /\ op.to[k].subject = sid
                              /\ op.to[k].error
                                   = "requires more lessons than available periods"
                slotsOfClass == Cardinality({k \in DOMAIN createLessonSlots :
                                                createLessonSlots[k][3] = c})
            IN  flagged <=> targets[sid] > slotsOfClass

\* C23: calculateSoftConstraintScores returns a score, and the score is
\* between 0 and 1050.
SoftScoreReturnedInRange ==
    op.name = "calculateSoftConstraintScores" =>
        /\ ~op.to.throws
        /\ op.to.value \in 0..1050

\* Lessons standing in a slot of a break period.
lessonInBreak(tt) ==
    \E a \in Addresses :
        /\ PeriodOf(a.period_id).type # "lesson"
        /\ slotAt(tt, a).subject_id # NULL

\* C24: checkHardConstraints leaves the grid as it is; it reports the teacher
\* double booking exactly when the proposed teacher_id is not null and a slot
\* of another class at the proposed day and period holds it, and the break
\* violation exactly when the proposed period is not a lesson period; when it
\* reports nothing and the grid has no double booking and no lesson in a
\* break, the grid with the change written in has neither.
CheckHardConstraintsGuardsEdit ==
    [][op'.name = "checkHardConstraints" =>
         LET change == op'.from
             held == \E c \in ClassIds :
                        /\ c # change.class_id
                        /\ timetable[change.day][change.period_id][c].teacher_id
                             = change.teacher_id
             Reports(text) == \E k \in DOMAIN op'.to : op'.to[k] = text
         IN  /\ timetable' = timetable
             /\ Reports("Teacher is already assigned in this period")
                  <=> (change.teacher_id # NULL /\ held)
             /\ Reports("Cannot schedule lessons during break/lunch periods")
                  <=> (change.period_id \notin LessonPeriodIds)
             /\ (op'.to = <<>> /\ ~doubleBooked(timetable) /\ ~lessonInBreak(timetable))
                  => /\ ~doubleBooked(assignLesson(timetable, change))
                     /\ ~lessonInBreak(assignLesson(timetable, change))]_vars

\* A change was checked and passed that gives a class a teacher who teaches
\* the other class at another time, on a grid without double booking.
CleanEditChecked ==
    /\ op.name = "checkHardConstraints"
    /\ op.to = <<>>
    /\ op.from.teacher_id # NULL
    /\ ~doubleBooked(timetable)
    /\ \E a \in Addresses :
          /\ a.class_id # op.from.class_id
          /\ slotAt(timetable, a).teacher_id = op.from.teacher_id

\* C25: no slot of the timetable holds a teacher whose availability map has
\* an entry for the slot's day that does not contain the slot's period.
EngineRespectsAvailability ==
    timetable # <<>> =>
        \A a \in Addresses :
            LET t == slotAt(timetable, a).teacher_id
            IN  (t # NULL /\ a.day \in DOMAIN teachers[t].availability)
                    => a.period_id \in teachers[t].availability[a.day]

\* The number of slots of class c that hold subject sid.
lessonsOf(tt, c, sid) ==
    Cardinality({a \in Addresses : a.class_id = c /\ slotAt(tt, a).subject_id = sid})

\* C26: in every state of a generation no class has more slots of a subject
\* than the subject's target_lessons_per_week, so none of a subject whose
\* target is 0.
SubjectsWithinTarget ==
    timetable # <<>> =>
        \A c \in ClassIds, sid \in SubjectIds :
            lessonsOf(timetable, c, sid) <= targets[sid]

\* The (subject, teacher) pairs that are candidates for slot sl = <<day,
\* period, class>> on grid tt with the counters of a: the subject is under
\* its target for the class, the teacher covers the subject and the class's
\* level and teaches no class at the slot's day and period.
candidatePairs(sl, tt, a) ==
    {c \in [subject_id : SubjectIds, teacher_id : TeacherIds] :
        /\ a.subjectFrequency[sl[3]][c.subject_id] < targetLessons(c.subject_id)
        /\ c.subject_id \in teachers[c.teacher_id].subjects
        /\ ClassOf(sl[3]).level \in teachers[c.teacher_id].class_levels
        /\ \A k \in ClassIds : tt[sl[1]][sl[2]][k].teacher_id # c.teacher_id}

\* The grid and the counters assignLessons has when it processes a slot in
\* the step that leaves it suspended: those of the state before, or the fresh
\* ones when the step is the start of generate.
gridBefore == IF pc = "delay2" THEN timetable
              ELSE placeFixedElements(initializeTimetable)
countersBefore == IF pc = "delay2" THEN asg
                  ELSE assignLessonsLocals(createLessonSlots)

\* C27: in every step in which the engine processes a slot and assigns it,
\* the assigned (teacher, subject) pair is a candidate for the slot and no
\* candidate has a higher score; the step writes subject and teacher into
\* that slot and nothing else into the grid, and adds exactly one to the
\* teacher's load, the class's load of the day and the class's count of the
\* subject, leaving every other counter as it was.
AssignmentIsBestCandidate ==
    [][(pc' = "delay2" /\ asg' # asg) =>
         LET sl == asg'.sortedSlots[asg'.idx - 1]
             new == timetable'[sl[1]][sl[2]][sl[3]]
             score(c) == calculateAssignmentScore2(c.teacher_id, c.subject_id,
                             countersBefore.teacherLoad, countersBefore.classLoad,
                             sl[3], sl[1])
             chosen == [subject_id |-> new.subject_id, teacher_id |-> new.teacher_id]
         IN  new.teacher_id # NULL =>
               /\ chosen \in candidatePairs(sl, gridBefore, countersBefore)
               /\ \A c \in candidatePairs(sl, gridBefore, countersBefore) :
                     score(c) <= score(chosen)
               /\ timetable' =
                     [gridBefore EXCEPT ![sl[1]][sl[2]][sl[3]] =
                         [@ EXCEPT !.subject_id = new.subject_id,
                                   !.teacher_id = new.teacher_id]]
               /\ ~new.is_break
               /\ asg'.teacherLoad =
                     [countersBefore.teacherLoad EXCEPT ![new.teacher_id] = @ + 1]
               /\ asg'.classLoad =
                     [countersBefore.classLoad EXCEPT ![sl[3]][sl[1]] = @ + 1]
               /\ asg'.subjectFrequency =
                     [countersBefore.subjectFrequency
                        EXCEPT ![sl[3]][new.subject_id] = @ + 1]]_vars

\* The slot processed last was assigned while the class's other subject, with
\* its own teacher free at that time, was a candidate as well.
AssignedAmongSeveralCandidates ==
    /\ pc = "delay2"
    /\ LET sl == asg.sortedSlots[asg.idx - 1]
           got == timetable[sl[1]][sl[2]][sl[3]]
       IN  /\ got.teacher_id # NULL
           /\ \E c \in candidatePairs(sl, timetable, asg) :
                 /\ c.subject_id # got.subject_id
                 /\ c.teacher_id # got.teacher_id

\* Twice the score of candidate c for slot sl with the counters of a.
score2(c, sl, a) ==
    calculateAssignmentScore2(c.teacher_id, c.subject_id, a.teacherLoad,
                              a.classLoad, sl[3], sl[1])

\* C28: findBestAssignment returns no assignment, so that the pass leaves the
\* slot unassigned, exactly when the slot has no candidate; candidates whose
\* scores are all 0 still give an assignment.
UnassignedOnlyWithoutCandidate ==
    op.name = "findBestAssignment" =>
        (op.to = <<>> <=> candidatePairs(op.from, timetable, asg) = {})

\* An assignment was found for a slot all of whose candidates score 0.
AssignedAtScoreZero ==
    /\ op.name = "findBestAssignment"
    /\ op.to # <<>>
    /\ \A c \in candidatePairs(op.from, timetable, asg) : score2(c, op.from, asg) = 0

\* C29: the score of a candidate is max(0, 100 - 2 teacherLoad - 1.5
\* classDailyLoad + priorityBonus + morningBonus), where priorityBonus is 10,
\* 5, 0 for high, medium, low and morningBonus is 5 when prefer_morning is
\* set, the subject's priority is high and the slot's period starts before
\* 12:00, and 0 otherwise.  Both sides are doubled.
ScoreFollowsFormula ==
    op.name = "calculateAssignmentScore" =>
        LET sl == op.from.slot
            priority == SubjectOf(op.from.subject_id).priority
            priorityBonus == CASE priority = "high" -> 10
                               [] priority = "medium" -> 5
                               [] OTHER -> 0
            morning == timeToMinutes(PeriodOf(sl[2]).start_time) < 12 * 60
            morningBonus == IF prefer_morning /\ priority = "high" /\ morning
                            THEN 5 ELSE 0
            raw2 == 200 - 4 * asg.teacherLoad[op.from.teacher_id]
                        - 3 * asg.classLoad[sl[3]][sl[1]]
                        + 2 * priorityBonus + 2 * morningBonus
        IN  op.to = (IF raw2 > 0 THEN raw2 ELSE 0)

\* C30: of two candidates with the same subject the one whose teacher has
\* the smaller load does not score lower, and when the assignment found
\* scores above 0 no candidate with its subject has a teacher of smaller
\* load.
LeastLoadedTeacherChosen ==
    op.name = "findBestAssignment" =>
        LET cands == candidatePairs(op.from, timetable, asg)
        IN  /\ \A c, d \in cands :
                  (/\ c.subject_id = d.subject_id
                   /\ asg.teacherLoad[c.teacher_id] < asg.teacherLoad[d.teacher_id])
                      => score2(c, op.from, asg) >= score2(d, op.from, asg)
            /\ (op.to # <<>> /\ score2(op.to[1], op.from, asg) > 0) =>
                  \A c \in cands :
                      c.subject_id = op.to[1].subject_id
                          => asg.teacherLoad[c.teacher_id]
                               >= asg.teacherLoad[op.to[1].teacher_id]

\* An assignment scoring above 0 was found for a subject that has a second
\* candidate teacher, listed first, with a larger load.
LessLoadedSecondTeacherChosen ==
    /\ op.name = "findBestAssignment"
    /\ op.to # <<>>
    /\ score2(op.to[1], op.from, asg) > 0
    /\ op.to[1].teacher_id = "t2"
    /\ \E c \in candidatePairs(op.from, timetable, asg) :
          /\ c.subject_id = op.to[1].subject_id
          /\ c.teacher_id = "t1"
          /\ asg.teacherLoad["t1"] > asg.teacherLoad["t2"]

\* C31: the slots of a pass are in difficulty order: a slot of a class with
\* a higher level rank is before every slot of a class with a lower rank, and
\* of two classes with the same rank the slots of the one with fewer eligible
\* teachers are first.
PassInDifficultyOrder ==
    pc = "delay2" =>
        \A i, j \in DOMAIN asg.sortedSlots :
            LET ci == asg.sortedSlots[i][3]
                cj == asg.sortedSlots[j][3]
                rank(c) == getClassLevelDifficulty(ClassOf(c).level)
                eligible(c) == Cardinality({t \in TeacherIds :
                                   ClassOf(c).level \in teachers[t].class_levels})
            IN  i < j => /\ rank(ci) >= rank(cj)
                         /\ rank(ci) = rank(cj) => eligible(ci) <= eligible(cj)

\* The slots in a list of slots.
slotsIn(slots) == {slots[i] : i \in DOMAIN slots}

\* C32: an attempt after the first is not a repeat of the failure before it:
\* when it ends, the slots it leaves unassigned are not the very slots the
\* attempt before it left unassigned (asg.lessonSlots, what resetSomeSlots
\* returned).
RetryIsNotARepeat ==
    [][(pc = "delay2" /\ asg.attempt >= 1 /\ asg'.attempt = asg.attempt + 1)
          => slotsIn(asg.unassignedSlots) # slotsIn(asg.lessonSlots)]_vars

\* The number of slots of class c in tt that hold subject sid with teacher t.
lessonCount(tt, c, sid, t) ==
    Cardinality({a \in Addresses : /\ a.class_id = c
                                   /\ slotAt(tt, a).subject_id = sid
                                   /\ slotAt(tt, a).teacher_id = t})

\* The addresses at which the grids tt and after differ.
changedAddresses(tt, after) == {a \in Addresses : slotAt(tt, a) # slotAt(after, a)}

\* What one repair of a conflict does to the grid tt it is made on: the slot
\* of the conflict's first class stays, the lesson of one other class of the
\* conflict goes to a lesson slot of that class that held no subject, was no
\* break and at which no other class had the teacher, and the slot it came
\* from is left in the shape of an empty lesson slot.
repairRelocates(conflict, tt, after) ==
    \E src, dst \in Addresses :
        /\ changedAddresses(tt, after) = {src, dst}
        /\ src.day = conflict.day /\ src.period_id = conflict.periodId
        /\ src.class_id # conflict.assignments[1].classId
        /\ \E i \in DOMAIN conflict.assignments :
               conflict.assignments[i].classId = src.class_id
        /\ dst.class_id = src.class_id
        /\ dst # src
        /\ dst.period_id \in LessonPeriodIds
        /\ slotAt(tt, dst).subject_id = NULL
        /\ ~slotAt(tt, dst).is_break
        /\ \A c \in ClassIds \ {dst.class_id} :
               tt[dst.day][dst.period_id][c].teacher_id # conflict.teacherId
        /\ slotAt(after, dst) = [slotAt(tt, src) EXCEPT !.day = dst.day,
                                                       !.period_id = dst.period_id]
        /\ slotAt(after, src) = [day        |-> src.day,
                                 period_id  |-> src.period_id,
                                 class_id   |-> src.class_id,
                                 subject_id |-> NULL,
                                 teacher_id |-> NULL,
                                 room_id    |-> NULL,
                                 is_break   |-> FALSE]

\* C33: every repair the resolver can make on a grid keeps the slot of the
\* conflict's first class and moves the lesson of one other class of the
\* conflict to a slot of that class that was empty, no break and free of the
\* teacher, leaving an empty lesson slot behind; and a whole resolveConflicts
\* call leaves, for every class, subject and teacher, as many slots of the
\* class with that subject and teacher as there were before it.
ResolverOnlyRelocates ==
    [][(op.name = "none" /\ op'.name = "resolveConflicts") =>
          /\ \A c \in ClassIds, sid \in SubjectIds, t \in TeacherIds :
                 lessonCount(timetable', c, sid, t) = lessonCount(timetable, c, sid, t)
          /\ \A i \in DOMAIN findAllConflicts(timetable) :
                 \E r \in {resolveTeacherDoubleBooking(findAllConflicts(timetable)[i],
                                                       timetable)} :
                     IF r.resolved
                     THEN repairRelocates(findAllConflicts(timetable)[i], timetable, r.tt)
                     ELSE r.tt = timetable]_vars

\* Witness of C33: resolveConflicts has made two repairs and the grid holds
\* two lessons of class c2.
ResolverRelocatedTwice ==
    /\ op.name = "resolveConflicts"
    /\ op.to = 2
    /\ lessonCount(timetable, "c2", "s1", "t2") = 2

canTeachAt(tt, t, sid, a) ==
    /\ sid \in teachers[t].subjects
    /\ ClassOf(a.class_id).level \in teachers[t].class_levels
    /\ \A c \in ClassIds \ {a.class_id} : tt[a.day][a.period_id][c].teacher_id # t

\* C35: an optimizeSubjectDistribution call changes only slots of lesson
\* periods that held no subject and were no break, writes nothing but a
\* subject and a teacher into them, the teacher covering the subject and the
\* level of the class and being at no other class at that time; and when it
\* has returned, a class that has fewer slots of a subject than the target
\* the code uses has no empty lesson slot at which a teacher of the subject
\* and the level is free.
OptimizerFillsOnlyEmptySlots ==
    [][(op.name = "none" /\ op'.name = "optimizeSubjectDistribution") =>
          /\ \A a \in changedAddresses(timetable, timetable') :
                 /\ a.period_id \in LessonPeriodIds
                 /\ slotAt(timetable, a).subject_id = NULL
                 /\ ~slotAt(timetable, a).is_break
                 /\ slotAt(timetable', a) =
                        [slotAt(timetable, a) EXCEPT
                            !.subject_id = slotAt(timetable', a).subject_id,
                            !.teacher_id = slotAt(timetable', a).teacher_id]
                 /\ slotAt(timetable', a).subject_id \in SubjectIds
                 /\ slotAt(timetable', a).teacher_id \in TeacherIds
                 /\ canTeachAt(timetable', slotAt(timetable', a).teacher_id,
                               slotAt(timetable', a).subject_id, a)
          /\ \A c \in ClassIds, sid \in SubjectIds :
                 lessonsOf(timetable', c, sid) < targetLessons(sid) =>
                     ~\E a \in LessonAddresses, t \in TeacherIds :
                         /\ a.class_id = c
                         /\ slotAt(timetable', a).subject_id = NULL
                         /\ ~slotAt(timetable', a).is_break
                         /\ canTeachAt(timetable', t, sid, a)]_vars

\* Witness of C35: optimizeSubjectDistribution has returned, some slot holds a
\* lesson it wrote (a subject and no room: the drawn lessons all have a
\* room), and some class is still short of a subject and has an empty lesson
\* slot.
OptimizerFilledAndFellShort ==
    /\ op.name = "optimizeSubjectDistribution"
    /\ \E a \in LessonAddresses : /\ slotAt(timetable, a).subject_id # NULL
                                   /\ slotAt(timetable, a).room_id = NULL
    /\ \E c \in ClassIds, sid \in SubjectIds :
          /\ lessonsOf(timetable, c, sid) < targetLessons(sid)
          /\ \E a \in LessonAddresses : /\ a.class_id = c
                                         /\ slotAt(timetable, a).subject_id = NULL

\* C36: whenever no generate call is running, isGenerating is false, however
\* the last call ended; a generate called then is accepted; and it starts
\* with the cancellation flag reset and runs to its first await exactly as
\* on a generator that was never cancelled, whatever the flag was before.
EndedGenerateFreesTheGenerator ==
    [][/\ (pc' = "idle" => ~isGenerating')
       /\ (pc = "idle" /\ calls' = calls + 1) =>
              /\ op'.name = "generate" /\ op'.success
              /\ ~generationCancelled'
              /\ outcome' # "cancelled"
              /\ validateData =>
                     \E e \in {afterAssignRun(
                                  assignLessonsRun(placeFixedElements(initializeTimetable),
                                                   assignLessonsLocals(createLessonSlots),
                                                   TRUE, FALSE),
                                  FALSE)} :
                         /\ timetable' = e.tt
                         /\ asg' = e.a
                         /\ pc' = e.pc
                         /\ outcome' = e.outcome]_vars

\* Witness of C36: a generation that was not cancelled has ended with an
\* error, cancelGeneration has been called since with no generation running,
\* and another generate call can follow.
CancelledWhileIdleAfterARun ==
    /\ pc = "idle"
    /\ ~isGenerating
    /\ calls = 1
    /\ outcome = "TypeError"
    /\ generationCancelled

\* The (teacher, day, period) triples at which the teacher is in the slots of
\* more than one class of tt.
doubleBookedTriples(tt) ==
    {x \in TeacherIds \X DaySet \X PeriodIds :
        Cardinality({c \in ClassIds : tt[x[2]][x[3]][c].teacher_id = x[1]}) > 1}

\* The slots of tt whose teacher is in another class's slot at the same time.
slotsInDoubleBookings(tt) ==
    {a \in Addresses :
        /\ slotAt(tt, a).teacher_id # NULL
        /\ \E c \in ClassIds \ {a.class_id} :
               tt[a.day][a.period_id][c].teacher_id = slotAt(tt, a).teacher_id}

\* C37: every repair the resolver can make on a grid leaves no more double
\* booked (teacher, day, period) triples than there were, none that was not
\* there, and strictly fewer slots in double bookings; and a whole
\* resolveConflicts call adds no double booked triple and takes at least one
\* slot out of the double bookings for every repair it counts.
RepairsOnlyRemoveDoubleBookings ==
    [][(op.name = "none" /\ op'.name = "resolveConflicts") =>
          /\ doubleBookedTriples(timetable') \subseteq doubleBookedTriples(timetable)
          /\ Cardinality(slotsInDoubleBookings(timetable'))
                 <= Cardinality(slotsInDoubleBookings(timetable)) - op'.to
          /\ \A i \in DOMAIN findAllConflicts(timetable) :
                 \E r \in {resolveTeacherDoubleBooking(findAllConflicts(timetable)[i],
                                                       timetable)} :
                     r.resolved =>
                        /\ doubleBookedTriples(r.tt) \subseteq doubleBookedTriples(timetable)
                        /\ Cardinality(slotsInDoubleBookings(r.tt))
                               < Cardinality(slotsInDoubleBookings(timetable))]_vars

\* Witness of C37: resolveConflicts has made one repair and has returned with
\* one double booked triple left in the grid.
OneRepairedOneLeft ==
    /\ op.name = "resolveConflicts"
    /\ op.to = 1
    /\ Cardinality(doubleBookedTriples(timetable)) = 1

\* C38: once the app is initialized, the state object its generator holds and
\* the one its constraint manager holds have the data of the app's current
\* appState.
ComponentsReadCurrentState ==
    app.constructed => /\ app.timetableGenerator = app.appState
                       /\ app.constraintManager = app.appState

\* The step is a call of the handler "name".
handlerStep(name) == app'.ops = app.ops + 1 /\ app'.last = name

\* appState and both stacks are after the step what they were before it.
historyKept ==
    /\ app'.appState = app.appState
    /\ app'.past = app.past
    /\ app'.future = app.future

\* undo with at most one snapshot and redo with no undone snapshot change
\* neither appState nor the stacks nor the object appState refers to.
idleUndoRedo ==
    /\ (handlerStep("undo") /\ Len(app.past) <= 1) =>
           historyKept /\ app'.sameObject = app.sameObject
    /\ (handlerStep("redo") /\ app.future = <<>>) =>
           historyKept /\ app'.sameObject = app.sameObject

\* A handler that reached saveToHistory leaves no undone snapshot, the
\* current appState as the latest snapshot and at most maxSize snapshots: the
\* ones before, without the oldest when there were maxSize of them.
savedStep ==
    (app'.ops = app.ops + 1 /\ app'.saved) =>
        /\ app'.future = <<>>
        /\ Len(app'.past) <= maxSize
        /\ app'.past = (IF Len(app.past) = maxSize THEN Tail(app.past) ELSE app.past)
                           \o <<app'.appState>>

\* C39 as stated: whenever appState equals the latest snapshot, undo followed
\* by redo leaves appState and both stacks as they were; undo with a single
\* snapshot and redo with an empty future stack change nothing; and every
\* saveToHistory empties the future stack and keeps at most maxSize snapshots.
UndoRedoRestoresAlways ==
    [][/\ (handlerStep("undoThenRedo") /\ app.past # <<>>
              /\ app.appState = app.past[Len(app.past)]) => historyKept
       /\ idleUndoRedo
       /\ savedStep]_vars

\* C39, amended: the same, the round trip being claimed only when the past
\* stack holds more than one snapshot, so that the undo is not a no-op.
UndoRedoRestores ==
    [][/\ (handlerStep("undoThenRedo") /\ Len(app.past) > 1
              /\ app.appState = app.past[Len(app.past)]) => historyKept
       /\ idleUndoRedo
       /\ savedStep]_vars

\* Witness of C39: a save on a full history has dropped the oldest snapshot
\* (the first one left is the second of the history the app started with),
\* and undo followed by redo has then run with appState equal to the latest
\* of the maxSize snapshots.
RoundTripOnFullHistory ==
    /\ app.last = "undoThenRedo"
    /\ app.ops = 2
    /\ Len(app.past) = maxSize
    /\ app.future = <<>>
    /\ app.past[1] = usedPast(maxSize)[2]
    /\ app.past[maxSize - 1] = usedPast(maxSize)[maxSize]
    /\ app.appState = app.past[maxSize]

====
